---- MODULE Spec2Model ----
(***************************************************************************)
(* A model of the Axolotl tree-walking interpreter (src/src/interpreter.cpp *)
(* and the declarations of unnamed/part_000).                               *)
(*                                                                         *)
(* Part I   - the evaluator's control flow: the C++ activation records of  *)
(*            the visit functions, the exception in flight and the depth   *)
(*            of Environment::scopes.                                      *)
(***************************************************************************)
EXTENDS Integers, Sequences, FiniteSets, TLC

VARIABLES
    frames,      \* Part I: activation records of the visit functions, innermost last
    depth,       \* Part I: environment.scopes.size()
    signal,      \* Part I: the C++ exception in flight ("none" when there is none)
    status,      \* Part I: "running", "done", "exited" (std::exit(1)), "uncaught"
    errInTry,    \* Part I (history): a runtime_error was raised while a try body was executing
    scopes,      \* Parts III-V, VIII: Environment::scopes, innermost last; each a map name -> Variable
    lastSet,     \* Part III (history): the last Environment::set call and how it ended
    loads,       \* Part IV: the visit(ImportDeclaration)/visit(UseDeclaration) calls in progress
    currentModulePath,     \* Part IV: "" at the top level of the main program
    importedFiles,         \* Part IV: the already-loaded set
    moduleExports,         \* Part IV: path -> (name -> Value)
    moduleDefaultExports,  \* Part IV: path -> Value
    executed,    \* Part IV (history): path -> how often its top-level code was started
    firstImport, \* Part IV (history): one import that was made, and what it bound
    laterImport, \* Part IV (history): the latest import after it of the same module and list
    heap,        \* Part V: the ArrayValue objects behind the shared_ptrs, address -> elements
    caller,      \* Part V: the evaluating thread: "running", "waiting" (in future.wait), "joined"
    worker,      \* Part V: the std::async task: "none", "start", "body", "done"
    argValues,   \* Part V: the argument values captured by the programRunner lambda
    savedEnv,    \* Part V: programRunner's copy of this->environment, restored at its end
    snapshot,    \* Part V (history): the caller's environment and the heap at dispatch
    node,        \* Part VI: the SwitchStatement: discriminant expression and case clauses
    discriminantValue,  \* Part VI
    clause,      \* Part VI: the position of the loop over node.cases; 0 before it starts
    matched,     \* Part VI
    fallthrough, \* Part VI
    swExit,      \* Part VI: "no", or how visit(SwitchStatement) was left: "end", "break", "signal"
    ran,         \* Part VI (history): the clauses whose statements were executed
    loopStmt,    \* Part VII: the WhileStatement or ForStatement
    envStart,    \* Part VII: the environment the loop starts from
    envInterp,   \* Part VII: the environment of the interpreted execution of the loop
    ipc,         \* Part VII: the position of the interpreted execution
    envJit,      \* Part VII: the environment after the attempt with the JIT compiler
    jit,         \* Part VII: "pending", "handled" (compileAndExecute returned true), "fallback"
    programs,    \* Part VIII: the program registry, name -> parameter names
    functions,   \* Part VIII: the function registry, name -> parameter names
    call,        \* Part VIII: the visit(FunctionCall) in progress
    events,      \* Part VIII (history): what the call in progress has done, in order
    declaration, \* Part IX: the VariableDeclaration being visited: its value and type
    declOutcome, \* Part IX: "pending", "defined" or "type error"
    statement,   \* Part X: the statement executed over the variables l and r
    lastValue,   \* Part X: the value the statement's expression evaluated to
    taken,       \* Part X: the branch an if statement took
    lastVariable, \* Part X: name and declared type of the identifier read last
    source,      \* Part XI: Lexer::source
    position,    \* Part XI: Lexer::position
    lexing,      \* Part XI: where tokenize is: "idle", "loop", "returned"
    lastToken,   \* Part XI (history): the token the last nextToken returned
    tokens,      \* Parts XI, XII: the token sequence (their types)
    current,     \* Part XII: Parser::current
    reads,       \* Part XII (history): the indexes of tokens the last operation read
    savedPos,    \* Part XII: the position a speculative parse returns to
    parsing      \* Part XII: "idle", "running", "done" or "ParseError"

execVars == <<frames, depth, signal, status, errInTry>>
envVars == <<scopes>>
setVars == <<lastSet>>
modVars == <<loads, currentModulePath, importedFiles, moduleExports, moduleDefaultExports,
             executed, firstImport, laterImport>>

awaitVars == <<heap, caller, worker, argValues, savedEnv, snapshot>>

switchVars == <<node, discriminantValue, clause, matched, fallthrough, swExit, ran>>

loopVars == <<loopStmt, envStart, envInterp, ipc, envJit, jit>>

callVars == <<programs, functions, call, events>>

declVars == <<declaration, declOutcome>>

evalVars == <<statement, lastValue, taken, lastVariable>>

lexVars == <<source, position, lexing, lastToken>>

tokVars == <<tokens>>

parseVars == <<current, reads, savedPos, parsing>>

vars ==
    <<execVars, envVars, setVars, modVars, awaitVars, switchVars, loopVars, callVars,
      declVars, evalVars, lexVars, tokVars, parseVars>>

\* What the actions of one part leave alone.
NotExec ==
    <<envVars, setVars, modVars, awaitVars, switchVars, loopVars, callVars, declVars, evalVars,
      lexVars, tokVars, parseVars>>
NotSet ==
    <<execVars, modVars, awaitVars, switchVars, loopVars, callVars, declVars, evalVars,
      lexVars, tokVars, parseVars>>
NotMod ==
    <<execVars, setVars, awaitVars, switchVars, loopVars, callVars, declVars, evalVars,
      lexVars, tokVars, parseVars>>
NotAwait ==
    <<execVars, setVars, modVars, switchVars, loopVars, callVars, declVars, evalVars,
      lexVars, tokVars, parseVars>>
NotSwitch ==
    <<execVars, envVars, setVars, modVars, awaitVars, loopVars, callVars, declVars, evalVars,
      lexVars, tokVars, parseVars>>
NotLoop ==
    <<execVars, envVars, setVars, modVars, awaitVars, switchVars, callVars, declVars, evalVars,
      lexVars, tokVars, parseVars>>
NotCall ==
    <<execVars, setVars, modVars, awaitVars, switchVars, loopVars, declVars, evalVars,
      lexVars, tokVars, parseVars>>
NotDecl ==
    <<execVars, setVars, modVars, awaitVars, switchVars, loopVars, callVars, evalVars,
      lexVars, tokVars, parseVars>>
NotEval ==
    <<execVars, setVars, modVars, awaitVars, switchVars, loopVars, callVars, declVars,
      lexVars, tokVars, parseVars>>
NotLex ==
    <<execVars, envVars, setVars, modVars, awaitVars, switchVars, loopVars, callVars,
      declVars, evalVars, parseVars>>
NotParse ==
    <<execVars, envVars, setVars, modVars, awaitVars, switchVars, loopVars, callVars,
      declVars, evalVars, lexVars>>

----------------------------------------------------------------------------
(* Part I: control flow *)

\* The longest chain of nested activation records the model explores.
MaxFrames == 5
\* The largest scope-stack depth the model explores (leaked scopes accumulate).
MaxDepth == 6

\* Interpreter::Interpreter() pushes the global scope.
InitDepth == 1

Signals == {"Return", "Break", "Continue", "Throw", "Error"}

\* An activation record.  entry: scopes.size() when the visit function was entered.
\* The try fields are meaningful for kind = "try" only.
Frame(kind, entry) ==
    [kind |-> kind, entry |-> entry, phase |-> "body", hasCatch |-> FALSE,
     hasFinally |-> FALSE, finallyExecuted |-> FALSE, runs |-> 0, pending |-> "none"]

TryFrame(entry, hasCatch, hasFinally) ==
    [kind |-> "try", entry |-> entry, phase |-> "body", hasCatch |-> hasCatch,
     hasFinally |-> hasFinally, finallyExecuted |-> FALSE, runs |-> 0, pending |-> "none"]

Top == frames[Len(frames)]
Pop == SubSeq(frames, 1, Len(frames) - 1)
ReplaceTop(f) == [frames EXCEPT ![Len(frames)] = f]

Running == status = "running"

\* A statement can start: no exception in flight and the innermost activation is
\* one that executes statements (Program, executeBlock, the clauses of a switch).
AtStatement ==
    /\ Running
    /\ signal = "none"
    /\ Top.kind \in {"program", "block", "switch"}

CanPush(nFrames, nScopes) ==
    /\ Len(frames) + nFrames <= MaxFrames
    /\ depth + nScopes <= MaxDepth

InTryBody == \E i \in 1..Len(frames) : frames[i].kind = "try" /\ frames[i].phase = "body"

IdleExec ==
    /\ frames = <<>>
    /\ depth = 0
    /\ signal = "none"
    /\ status = "idle"
    /\ errInTry = FALSE

InitExec ==
    /\ frames = <<Frame("program", InitDepth)>>
    /\ depth = InitDepth
    /\ signal = "none"
    /\ status = "running"
    /\ errInTry = FALSE

\* executeBlock entry: environment.pushScope().
BlockEnterDepth(d) == d + 1

\* executeBlock, every statement done: environment.popScope().
BlockExitDepth(d) == d - 1

\* visit(Block) / visit(IfStatement): executeBlock(block).
ExecuteBlock ==
    /\ UNCHANGED NotExec
    /\ AtStatement
    /\ CanPush(1, 1)
    /\ frames' = Append(frames, Frame("block", depth))
    /\ depth' = BlockEnterDepth(depth)
    /\ UNCHANGED <<signal, status, errInTry>>

\* executeBlock: the statement loop ends, popScope, return.
BlockEnd ==
    /\ UNCHANGED NotExec
    /\ Running
    /\ signal = "none"
    /\ Top.kind = "block"
    /\ depth' = BlockExitDepth(depth)
    /\ frames' = Pop
    /\ UNCHANGED <<signal, status, errInTry>>

\* executeBlock has no handler: an exception leaves it without popScope.
BlockUnwind ==
    /\ UNCHANGED NotExec
    /\ Running
    /\ signal # "none"
    /\ Top.kind = "block"
    /\ frames' = Pop
    /\ UNCHANGED <<depth, signal, status, errInTry>>

\* visit(ReturnStatement), visit(BreakStatement), visit(ContinueStatement),
\* visit(ThrowStatement); std::runtime_error from any expression.
Raise(s) ==
    /\ UNCHANGED NotExec
    /\ AtStatement
    /\ signal' = s
    /\ errInTry' = (errInTry \/ (s = "Error" /\ InTryBody))
    /\ UNCHANGED <<frames, depth, status>>

\* visit(Program): every declaration visited, interpret() returns.
ProgramEnd ==
    /\ UNCHANGED NotExec
    /\ Running
    /\ signal = "none"
    /\ Top.kind = "program"
    /\ status' = "done"
    /\ UNCHANGED <<frames, depth, signal, errInTry>>

\* An exception leaves interpret(): main() catches std::exception and returns 1.
ProgramUncaught ==
    /\ UNCHANGED NotExec
    /\ Running
    /\ signal # "none"
    /\ Top.kind = "program"
    /\ status' = "uncaught"
    /\ UNCHANGED <<frames, depth, signal, errInTry>>

\* A user function or a program called synchronously.  After the arity check:
\* environment.pushScope(), the parameters are defined, executeBlock(body).
CallEnter ==
    /\ UNCHANGED NotExec
    /\ AtStatement
    /\ CanPush(2, 2)
    /\ frames' = frames \o <<Frame("call", depth), Frame("block", depth + 1)>>
    /\ depth' = BlockEnterDepth(depth + 1)
    /\ UNCHANGED <<signal, status, errInTry>>

\* The body ended without a return: environment.popScope(); return "".
CallEnd ==
    /\ UNCHANGED NotExec
    /\ Running
    /\ signal = "none"
    /\ Top.kind = "call"
    /\ depth' = depth - 1
    /\ frames' = Pop
    /\ UNCHANGED <<signal, status, errInTry>>

\* catch (const ReturnException&): one popScope, the value is the call's result.
\* Any other exception passes through the call with no popScope.
CallHandle ==
    /\ UNCHANGED NotExec
    /\ Running
    /\ signal # "none"
    /\ Top.kind = "call"
    /\ frames' = Pop
    /\ IF signal = "Return"
         THEN /\ depth' = depth - 1
              /\ signal' = "none"
         ELSE UNCHANGED <<depth, signal>>
    /\ UNCHANGED <<status, errInTry>>

\* visit(ForStatement), interpreted path: pushScope, init.
ForEnter ==
    /\ UNCHANGED NotExec
    /\ AtStatement
    /\ CanPush(1, 1)
    /\ frames' = Append(frames, Frame("for", depth))
    /\ depth' = depth + 1
    /\ UNCHANGED <<signal, status, errInTry>>

\* visit(WhileStatement), interpreted path.
WhileEnter ==
    /\ UNCHANGED NotExec
    /\ AtStatement
    /\ CanPush(1, 0)
    /\ frames' = Append(frames, Frame("while", depth))
    /\ UNCHANGED <<depth, signal, status, errInTry>>

\* The loop condition is truthy: executeBlock(body).
LoopIterate ==
    /\ UNCHANGED NotExec
    /\ Running
    /\ signal = "none"
    /\ Top.kind \in {"for", "while"}
    /\ CanPush(1, 1)
    /\ frames' = Append(frames, Frame("block", depth))
    /\ depth' = BlockEnterDepth(depth)
    /\ UNCHANGED <<signal, status, errInTry>>

\* The loop condition is falsy: a for loop pops its scope, a while loop just returns.
LoopExit ==
    /\ UNCHANGED NotExec
    /\ Running
    /\ signal = "none"
    /\ Top.kind \in {"for", "while"}
    /\ depth' = IF Top.kind = "for" THEN depth - 1 ELSE depth
    /\ frames' = Pop
    /\ UNCHANGED <<signal, status, errInTry>>

\* evaluate(condition) / evaluate(update) throws std::runtime_error.
LoopHeaderError ==
    /\ UNCHANGED NotExec
    /\ Running
    /\ signal = "none"
    /\ Top.kind \in {"for", "while"}
    /\ signal' = "Error"
    /\ errInTry' = (errInTry \/ InTryBody)
    /\ UNCHANGED <<frames, depth, status>>

\* catch (const BreakException&) { break; }  catch (const ContinueException&) {...}
\* Anything else leaves the loop; the for loop's popScope is not reached.
LoopHandle ==
    /\ UNCHANGED NotExec
    /\ Running
    /\ signal # "none"
    /\ Top.kind \in {"for", "while"}
    /\ CASE signal = "Break" ->
              /\ depth' = IF Top.kind = "for" THEN depth - 1 ELSE depth
              /\ frames' = Pop
              /\ signal' = "none"
         [] signal = "Continue" ->
              /\ signal' = "none"
              /\ UNCHANGED <<frames, depth>>
         [] OTHER ->
              /\ frames' = Pop
              /\ UNCHANGED <<depth, signal>>
    /\ UNCHANGED <<status, errInTry>>

\* visit(SwitchStatement): the clauses' statements run in the switch's own frame.
SwitchEnter ==
    /\ UNCHANGED NotExec
    /\ AtStatement
    /\ CanPush(1, 0)
    /\ frames' = Append(frames, Frame("switch", depth))
    /\ UNCHANGED <<depth, signal, status, errInTry>>

SwitchEnd ==
    /\ UNCHANGED NotExec
    /\ Running
    /\ signal = "none"
    /\ Top.kind = "switch"
    /\ frames' = Pop
    /\ UNCHANGED <<depth, signal, status, errInTry>>

\* catch (const BreakException&) { return ""; }
SwitchHandle ==
    /\ UNCHANGED NotExec
    /\ Running
    /\ signal # "none"
    /\ Top.kind = "switch"
    /\ frames' = Pop
    /\ signal' = IF signal = "Break" THEN "none" ELSE signal
    /\ UNCHANGED <<depth, status, errInTry>>

\* visit(TryStatement): executeBlock(tryBlock) inside the C++ try.
TryEnter(hc, hf) ==
    /\ UNCHANGED NotExec
    /\ AtStatement
    /\ CanPush(2, 1)
    /\ frames' = frames \o <<TryFrame(depth, hc, hf), Frame("block", depth)>>
    /\ depth' = BlockEnterDepth(depth)
    /\ UNCHANGED <<signal, status, errInTry>>

\* FinallyDue with the negation of the flag lost.
FinallyDueFlagInverted(f) == f.hasFinally /\ f.finallyExecuted

\* The test before each executeBlock(finallyBlock) outside the ThrowException
\* handler: node->finallyBlock && !finallyExecuted.
FinallyDue(f) == f.hasFinally /\ ~f.finallyExecuted

\* The test inside the ThrowException handler: node->finallyBlock.
FinallyDueInHandler(f) == f.hasFinally

\* executeBlock(finallyBlock) starts from try frame f, the scope stack being d deep;
\* ph says where in visit(TryStatement), pend is the exception `throw;` will rethrow.
StartFinally(f, d, ph, pend) ==
    /\ Len(frames) + 1 <= MaxFrames
    /\ d + 1 <= MaxDepth
    /\ frames' = Append(ReplaceTop([f EXCEPT !.phase = ph, !.pending = pend,
                                             !.runs = @ + 1]),
                        Frame("block", d))
    /\ depth' = BlockEnterDepth(d)
    /\ signal' = "none"

\* A block of the try statement returned normally.
TryResume ==
    /\ UNCHANGED NotExec
    /\ Running
    /\ signal = "none"
    /\ Top.kind = "try"
    /\ CASE Top.phase = "body" ->
              \* after the handlers: if (finallyBlock && !finallyExecuted)
              IF FinallyDue(Top)
                THEN StartFinally(Top, depth, "finallyEnd", "none")
                ELSE frames' = Pop /\ UNCHANGED <<depth, signal>>
         [] Top.phase = "catch" ->
              \* the catch block ended: popScope, then the code after the handlers
              IF FinallyDue(Top)
                THEN StartFinally(Top, depth - 1, "finallyEnd", "none")
                ELSE frames' = Pop /\ depth' = depth - 1 /\ UNCHANGED signal
         [] Top.phase = "finallyEnd" ->
              frames' = Pop /\ UNCHANGED <<depth, signal>>
         [] OTHER ->
              \* the finally block ran inside a handler: `throw;`
              frames' = Pop /\ signal' = Top.pending /\ UNCHANGED depth
    /\ UNCHANGED <<status, errInTry>>

\* catch (const ThrowException&) with a catch block: pushScope, the catch variable
\* is defined, executeBlock(catchBlock).
TryCatch ==
    /\ UNCHANGED NotExec
    /\ Running
    /\ signal = "Throw"
    /\ Top.kind = "try" /\ Top.phase = "body" /\ Top.hasCatch
    /\ CanPush(1, 2)
    /\ frames' = Append(ReplaceTop([Top EXCEPT !.phase = "catch"]),
                        Frame("block", depth + 1))
    /\ depth' = BlockEnterDepth(depth + 1)
    /\ signal' = "none"
    /\ UNCHANGED <<status, errInTry>>

\* catch (const ThrowException&) without a catch block: finally, then `throw;`.
TryThrowNoCatch ==
    /\ UNCHANGED NotExec
    /\ Running
    /\ signal = "Throw"
    /\ Top.kind = "try" /\ Top.phase = "body" /\ ~Top.hasCatch
    /\ IF FinallyDueInHandler(Top)
         THEN StartFinally(Top, depth, "finallyThrow", signal)
         ELSE frames' = Pop /\ UNCHANGED <<depth, signal>>
    /\ UNCHANGED <<status, errInTry>>

\* catch (const std::runtime_error&): ErrorHandler::showFatalError; std::exit(1).
TryFatal ==
    /\ UNCHANGED NotExec
    /\ Running
    /\ signal = "Error"
    /\ Top.kind = "try" /\ Top.phase = "body"
    /\ status' = "exited"
    /\ UNCHANGED <<frames, depth, signal, errInTry>>

\* catch (...) of the try body: Return, Break, Continue.
TrySignal ==
    /\ UNCHANGED NotExec
    /\ Running
    /\ signal \in {"Return", "Break", "Continue"}
    /\ Top.kind = "try" /\ Top.phase = "body"
    /\ IF FinallyDue(Top)
         THEN StartFinally(Top, depth, "finallySignal", signal)
         ELSE frames' = Pop /\ UNCHANGED <<depth, signal>>
    /\ UNCHANGED <<status, errInTry>>

\* catch (...) around the catch block: popScope, finally, `throw;`.
TryCatchRaised ==
    /\ UNCHANGED NotExec
    /\ Running
    /\ signal # "none"
    /\ Top.kind = "try" /\ Top.phase = "catch"
    /\ IF FinallyDueInHandler(Top)
         THEN StartFinally(Top, depth - 1, "finallyCatch", signal)
         ELSE frames' = Pop /\ depth' = depth - 1 /\ UNCHANGED signal
    /\ UNCHANGED <<status, errInTry>>

\* The finally block itself raised: the exception leaves visit(TryStatement)
\* (an exception thrown in a handler is not caught by the same try's handlers).
TryFinallyRaised ==
    /\ UNCHANGED NotExec
    /\ Running
    /\ signal # "none"
    /\ Top.kind = "try"
    /\ Top.phase \in {"finallyEnd", "finallyThrow", "finallySignal", "finallyCatch"}
    /\ frames' = Pop
    /\ UNCHANGED <<depth, signal, status, errInTry>>

\* visit(AwaitExpression) of a program: the worker copies the environment
\* (localEnv), pushes a scope for the parameters and runs executeBlock(body)
\* with this->environment = localEnv; entry keeps the depth of savedEnv.
AwaitEnter ==
    /\ UNCHANGED NotExec
    /\ AtStatement
    /\ CanPush(2, 2)
    /\ frames' = frames \o <<Frame("await", depth), Frame("block", depth + 1)>>
    /\ depth' = BlockEnterDepth(depth + 1)
    /\ UNCHANGED <<signal, status, errInTry>>

\* The worker ends, normally or by an exception: this->environment = savedEnv.
\* An exception is stored in the future; future.wait() does not rethrow it.
AwaitJoin ==
    /\ UNCHANGED NotExec
    /\ Running
    /\ Top.kind = "await"
    /\ frames' = Pop
    /\ depth' = Top.entry
    /\ signal' = "none"
    /\ UNCHANGED <<status, errInTry>>

NextExec ==
    \/ ExecuteBlock
    \/ BlockEnd
    \/ BlockUnwind
    \/ \E s \in Signals : Raise(s)
    \/ CallEnter
    \/ CallEnd
    \/ CallHandle
    \/ ForEnter
    \/ WhileEnter
    \/ LoopIterate
    \/ LoopExit
    \/ LoopHeaderError
    \/ LoopHandle
    \/ SwitchEnter
    \/ SwitchEnd
    \/ SwitchHandle
    \/ \E hc, hf \in BOOLEAN : TryEnter(hc, hf)
    \/ TryResume
    \/ TryCatch
    \/ TryThrowNoCatch
    \/ TryFatal
    \/ TrySignal
    \/ TryCatchRaised
    \/ TryFinallyRaised
    \/ AwaitEnter
    \/ AwaitJoin
    \/ ProgramEnd
    \/ ProgramUncaught


----------------------------------------------------------------------------
(* Part II: values, type specs and the type matcher.                        *)
(* A string (a type spec, a name, a string value) is a sequence of          *)
(* one-character strings; positions are 1-based where the C++ is 0-based.   *)

\* " \t\n\r" of trim; canonical type specs of the parser hold blanks only.
Whitespace == {" "}

Digits == {"0", "1", "2", "3", "4", "5", "6", "7", "8", "9"}

DigitValue(c) ==
    CASE c = "0" -> 0 [] c = "1" -> 1 [] c = "2" -> 2 [] c = "3" -> 3 [] c = "4" -> 4
      [] c = "5" -> 5 [] c = "6" -> 6 [] c = "7" -> 7 [] c = "8" -> 8 [] c = "9" -> 9

\* The alternatives of Value (unnamed/part_000:26-30).  FunctionDeclaration* and
\* FunctionExpression* are both tag "function".
IntV(n) == [tag |-> "int", v |-> n]
FloatV(n) == [tag |-> "float", v |-> n]
StrV(s) == [tag |-> "string", v |-> s]
BoolV(b) == [tag |-> "bool", v |-> b]
ArrV(elems) == [tag |-> "array", v |-> elems]
ObjV(fields) == [tag |-> "object", v |-> fields]
FuncV == [tag |-> "function", v |-> 0]

RECURSIVE TrimLeft(_)
TrimLeft(s) == IF Len(s) > 0 /\ s[1] \in Whitespace THEN TrimLeft(Tail(s)) ELSE s

RECURSIVE TrimRight(_)
TrimRight(s) ==
    IF Len(s) > 0 /\ s[Len(s)] \in Whitespace
      THEN TrimRight(SubSeq(s, 1, Len(s) - 1))
      ELSE s

trim(s) == TrimRight(TrimLeft(s))

\* s.find(c) != std::string::npos
HasChar(s, c) == \E i \in 1..Len(s) : s[i] = c

\* s.find(c, from): the first position >= from holding c, 0 for npos.
Find(s, c, from) ==
    IF \E i \in from..Len(s) : s[i] = c
      THEN CHOOSE i \in from..Len(s) : s[i] = c /\ \A j \in from..(i - 1) : s[j] # c
      ELSE 0

\* The splitting loop of splitUnion and of the tuple branch: a cut at every
\* occurrence of c, each part trimmed.
RECURSIVE SplitAtEvery(_, _)
SplitAtEvery(s, c) ==
    LET i == Find(s, c, 1)
    IN  IF i = 0
          THEN <<trim(s)>>
          ELSE <<trim(SubSeq(s, 1, i - 1))>> \o SplitAtEvery(SubSeq(s, i + 1, Len(s)), c)

splitUnion(s) == SplitAtEvery(s, "|")

\* The scan for the end of a field type in the object branch: from position i,
\* stop at a ',' seen with both counters at zero, or at the end of inner.
RECURSIVE FieldTypeEnd(_, _, _, _)
FieldTypeEnd(inner, i, braceCount, bracketCount) ==
    IF i > Len(inner) THEN i
    ELSE LET c == inner[i]
         IN  IF c = "{" THEN FieldTypeEnd(inner, i + 1, braceCount + 1, bracketCount)
             ELSE IF c = "}" THEN FieldTypeEnd(inner, i + 1, braceCount - 1, bracketCount)
             ELSE IF c = "[" THEN FieldTypeEnd(inner, i + 1, braceCount, bracketCount + 1)
             ELSE IF c = "]" THEN FieldTypeEnd(inner, i + 1, braceCount, bracketCount - 1)
             ELSE IF c = "," /\ braceCount = 0 /\ bracketCount = 0 THEN i
             ELSE FieldTypeEnd(inner, i + 1, braceCount, bracketCount)

RECURSIVE SkipBlanks(_, _)
SkipBlanks(inner, pos) ==
    IF pos <= Len(inner) /\ inner[pos] \in Whitespace THEN SkipBlanks(inner, pos + 1) ELSE pos

\* std::stoi on a string of digits and '-': an optional sign, then the digits up
\* to the first other character.  ok = FALSE stands for std::invalid_argument.
RECURSIVE DigitsValue(_, _, _)
DigitsValue(s, i, acc) ==
    IF i <= Len(s) /\ s[i] \in Digits
      THEN DigitsValue(s, i + 1, acc * 10 + DigitValue(s[i]))
      ELSE acc

stoi(s) ==
    LET neg == Len(s) > 0 /\ s[1] = "-"
        start == IF neg THEN 2 ELSE 1
    IN  IF start <= Len(s) /\ s[start] \in Digits
          THEN [ok |-> TRUE,
                value |-> IF neg THEN 0 - DigitsValue(s, start, 0) ELSE DigitsValue(s, start, 0)]
          ELSE [ok |-> FALSE, value |-> 0]

\* currentInterpreter->typeRegistry: the aliases declared by `type T = int|string;`.
typeRegistry == [n \in {<<"T">>} |-> <<"i", "n", "t", "|", "s", "t", "r", "i", "n", "g">>]

RECURSIVE valueMatchesType(_, _)
RECURSIVE ObjectFieldsMatch(_, _, _)

\* The field loop of the object branch, from position pos of inner.
ObjectFieldsMatch(obj, inner, pos0) ==
    LET pos == SkipBlanks(inner, pos0)
    IN  IF pos > Len(inner) THEN TRUE
        ELSE LET colonPos == Find(inner, ":", pos)
             IN  IF colonPos = 0 THEN TRUE
                 ELSE LET fieldName == trim(SubSeq(inner, pos, colonPos - 1))
                          typeEnd == FieldTypeEnd(inner, colonPos + 1, 0, 0)
                          fieldType == trim(SubSeq(inner, colonPos + 1, typeEnd - 1))
                      IN  /\ fieldName \in DOMAIN obj
                          /\ valueMatchesType(obj[fieldName], fieldType)
                          /\ ObjectFieldsMatch(obj, inner, typeEnd + 1)

valueMatchesType(v, typeSpec) ==
    LET t == trim(typeSpec)
        n == Len(t)
        inner == SubSeq(t, 2, n - 1)
    IN  IF n = 0 THEN FALSE
        ELSE IF t \in DOMAIN typeRegistry THEN valueMatchesType(v, typeRegistry[t])
        ELSE IF n >= 2 /\ t[1] = "[" /\ t[n] = "]" THEN
            /\ v.tag = "array"
            /\ IF HasChar(inner, ",")
                 THEN LET elementTypes == SplitAtEvery(inner, ",")
                      IN  /\ Len(v.v) = Len(elementTypes)
                          /\ \A i \in 1..Len(v.v) : valueMatchesType(v.v[i], elementTypes[i])
                 ELSE \A i \in 1..Len(v.v) : valueMatchesType(v.v[i], inner)
        ELSE IF n >= 2 /\ t[1] = "{" /\ t[n] = "}" THEN
            /\ v.tag = "object"
            /\ (Len(inner) = 0 \/ ObjectFieldsMatch(v.v, inner, 1))
        ELSE IF HasChar(t, "|") THEN
            LET parts == splitUnion(t)
            IN  \E i \in 1..Len(parts) : valueMatchesType(v, parts[i])
        ELSE IF n >= 2 /\ t[1] = "\"" /\ t[n] = "\"" THEN
            v.tag = "string" /\ v.v = inner
        ELSE IF (\A i \in 1..n : t[i] \in Digits \cup {"-"}) /\ t # <<"-">> THEN
            \* a failed std::stoi falls through to the tests below, none of which
            \* a string of digits and '-' passes
            v.tag = "int" /\ stoi(t).ok /\ v.v = stoi(t).value
        ELSE IF t = <<"t", "r", "u", "e">> THEN v.tag = "bool" /\ v.v = TRUE
        ELSE IF t = <<"f", "a", "l", "s", "e">> THEN v.tag = "bool" /\ v.v = FALSE
        ELSE IF t = <<"a", "n", "y">> THEN TRUE
        ELSE IF t = <<"i", "n", "t">> THEN v.tag = "int"
        ELSE IF t = <<"f", "l", "o", "a", "t">> THEN v.tag = "float"
        ELSE IF t = <<"s", "t", "r", "i", "n", "g">> THEN v.tag = "string"
        ELSE IF t = <<"b", "o", "o", "l">> THEN v.tag = "bool"
        ELSE IF t = <<"o", "b", "j", "e", "c", "t">> THEN v.tag = "object"
        ELSE IF t = <<"f", "u", "n", "c">> \/ t[1] = "(" THEN v.tag = "function"
        ELSE FALSE

----------------------------------------------------------------------------
(* Part III: Environment (define / get / set over the scope stack) *)

\* How many empty block scopes lie above the global scope in the initial states.
MaxExtraScopes == 1

NoSet == [name |-> "", value |-> IntV(0), declared |-> <<>>, outcome |-> "none"]

IdleEnv == scopes = <<>>

IdleSet == lastSet = NoSet

Variable(v, t) == [value |-> v, type |-> t, isConst |-> FALSE]

ConstVariable(v, t) == [value |-> v, type |-> t, isConst |-> TRUE]

\* An empty std::unordered_map<std::string, Variable>.
EmptyScope == [n \in {} |-> Variable(IntV(0), <<>>)]

\* The values and the declared type specs the bindings are drawn from.
X1 == [n \in {<<"x">>} |-> IntV(1)]
XA == [n \in {<<"x">>} |-> StrV(<<"a">>)]
XL == [n \in {<<"x">>} |-> ArrV(<<IntV(1)>>)]

Values ==
    {IntV(1), IntV(2), StrV(<<"a">>), BoolV(TRUE), ArrV(<<>>), ArrV(<<IntV(1)>>),
     ArrV(<<IntV(1), StrV(<<"a">>)>>), ObjV(EmptyScope), ObjV(X1), ObjV(XA), ObjV(XL), FuncV}

TypeSpecs ==
    {<<"i", "n", "t">>,
     <<"s", "t", "r", "i", "n", "g">>,
     <<"a", "n", "y">>,
     <<"f", "u", "n", "c">>,
     <<"1">>,
     <<"T">>,
     <<"i", "n", "t", "|", "s", "t", "r", "i", "n", "g">>,
     <<"\"", "a", "\"", "|", "1">>,
     <<"[", "i", "n", "t", "]">>,
     <<"[", "i", "n", "t", ",", "s", "t", "r", "i", "n", "g", "]">>,
     <<"{", "x", ":", "i", "n", "t", "}">>,
     <<"{", "x", ":", "[", "i", "n", "t", "]", "}">>}

VarNames == {"x", "y"}

\* Function parameters are defined with whatever value the caller passes
\* (visit(FunctionCall): Variable param(argVal, declaredType)), so a binding may
\* hold any value under any declared type; "x" is bound in the global scope, "y"
\* is not bound.
InitSet ==
    /\ \E v \in Values, t \in TypeSpecs, extra \in 0..MaxExtraScopes :
         scopes = <<[n \in {"x"} |-> Variable(v, t)]>> \o [i \in 1..extra |-> EmptyScope]
    /\ lastSet = NoSet

\* The loop of get / set / has: the innermost scope that holds name, 0 when none does.
FindScope(name) ==
    IF \E i \in 1..Len(scopes) : name \in DOMAIN scopes[i]
      THEN CHOOSE i \in 1..Len(scopes) :
             /\ name \in DOMAIN scopes[i]
             /\ \A j \in (i + 1)..Len(scopes) : name \notin DOMAIN scopes[j]
      ELSE 0

\* Environment::set: the condition under which the matcher is consulted.
NeedsTypeCheck(declared) ==
    /\ Len(declared) > 0
    /\ \/ HasChar(declared, "|")
       \/ HasChar(declared, "[")
       \/ declared = <<"a", "n", "y">>

\* Environment::set(name, value): "ok", "TypeError" or "Undefined" (the two
\* std::runtime_error it throws).
SetOutcome(name, value) ==
    LET i == FindScope(name)
    IN  IF i = 0 THEN "Undefined"
        ELSE IF NeedsTypeCheck(scopes[i][name].type)
                /\ ~valueMatchesType(value, scopes[i][name].type) THEN "TypeError"
        ELSE "ok"

EnvSet(name, value) ==
    /\ UNCHANGED NotSet
    /\ LET i == FindScope(name)
           outcome == SetOutcome(name, value)
       IN  /\ scopes' = IF outcome = "ok"
                          THEN [scopes EXCEPT ![i][name].value = value]
                          ELSE scopes
           /\ lastSet' = [name |-> name, value |-> value,
                          declared |-> IF i = 0 THEN <<>> ELSE scopes[i][name].type,
                          outcome |-> outcome]

NextSet == \E name \in VarNames, value \in Values : EnvSet(name, value)

----------------------------------------------------------------------------
(* Part IV: the module loader.  The main program and every module is a      *)
(* sequence of top-level declarations; which declaration comes next is left *)
(* open, so the behaviours cover every content of the files.                *)

\* The resolved paths of the .axo files that exist.
Paths == {"a", "b"}

\* The names modules declare, export and import, and the values they hold.
ModNames == {"x"}
ModValues == {IntV(1)}

\* The import lists: `import {x}`, and the empty list of `import "path"` and
\* `import d from "path"`.
ImportLists == {<<>>, <<"x">>}

\* The local name of a default import; "" when the declaration has none.
DefaultNames == {"", "d"}

NoExports == [n \in {} |-> IntV(0)]

NoImport == [path |-> "", dflt |-> "", names |-> <<>>, bound |-> <<>>]

\* How often the top-level code of one module may start before the loader is
\* stopped (the loader itself has no such limit).
MaxExecutions == 2

IdleMod ==
    /\ loads = <<>>
    /\ currentModulePath = ""
    /\ importedFiles = {}
    /\ moduleExports = <<>>
    /\ moduleDefaultExports = <<>>
    /\ executed = <<>>
    /\ firstImport = NoImport
    /\ laterImport = NoImport

\* Interpreter::Interpreter() and main(): one global scope, nothing loaded.
InitMod ==
    /\ scopes = <<EmptyScope>>
    /\ loads = <<>>
    /\ currentModulePath = ""
    /\ importedFiles = {}
    /\ moduleExports = [q \in {} |-> NoExports]
    /\ moduleDefaultExports = [q \in {} |-> IntV(0)]
    /\ executed = [q \in Paths |-> 0]
    /\ firstImport = NoImport
    /\ laterImport = NoImport

\* m with key k set to v (std::unordered_map operator[] assignment).
Put(m, k, v) == [q \in DOMAIN m \cup {k} |-> IF q = k THEN v ELSE m[q]]

\* Environment::define: the innermost scope, overwriting.
Define(sc, name, var) == [sc EXCEPT ![Len(sc)] = Put(sc[Len(sc)], name, var)]

\* Environment::has / get over a scope stack sc.
EnvHas(sc, name) == \E i \in 1..Len(sc) : name \in DOMAIN sc[i]

EnvGet(sc, name) ==
    LET i == CHOOSE i \in 1..Len(sc) :
                 /\ name \in DOMAIN sc[i]
                 /\ \A j \in (i + 1)..Len(sc) : name \notin DOMAIN sc[j]
    IN  sc[i][name]

\* The test that guards the load mutated: the already-loaded set is never consulted.
AlreadyImportedIgnored(path) == FALSE

\* bool alreadyImported = importedFiles.find(resolvedPath) != importedFiles.end();
AlreadyImported(path) == path \in importedFiles

\* ExportDeclaration: the key the exports are attributed to.
CurrentModule == IF currentModulePath = "" THEN "<main>" ELSE currentModulePath

\* "Handle import bindings": the default import, then the named imports, defined
\* in the importer's innermost scope as Variable(value, "any", true).
RECURSIVE BindNamed(_, _, _)
BindNamed(sc, path, names) ==
    IF names = <<>> THEN sc
    ELSE LET n == Head(names)
             next == IF path \in DOMAIN moduleExports /\ n \in DOMAIN moduleExports[path]
                       THEN Define(sc, n, ConstVariable(moduleExports[path][n], <<"a", "n", "y">>))
                       ELSE sc
         IN  BindNamed(next, path, Tail(names))

BindImports(sc, path, dflt, names) ==
    LET afterDefault ==
            IF dflt # "" /\ path \in DOMAIN moduleDefaultExports
              THEN Define(sc, dflt, ConstVariable(moduleDefaultExports[path], <<"a", "n", "y">>))
              ELSE sc
    IN  BindNamed(afterDefault, path, names)

\* What an import bound: for each name of the declaration, the value it was
\* given, or "unbound" when the import did not define it.
Bound(path, dflt, names) ==
    [n \in {names[i] : i \in 1..Len(names)} \cup ({dflt} \ {""}) |->
        IF n = dflt
          THEN IF path \in DOMAIN moduleDefaultExports
                 THEN moduleDefaultExports[path] ELSE [tag |-> "unbound", v |-> 0]
          ELSE IF path \in DOMAIN moduleExports /\ n \in DOMAIN moduleExports[path]
                 THEN moduleExports[path][n] ELSE [tag |-> "unbound", v |-> 0]]

\* The record of one import: the declaration and what it bound.
ImportRecord(path, dflt, names) ==
    [path |-> path, dflt |-> dflt, names |-> names, bound |-> Bound(path, dflt, names)]

SameImport(r1, r2) == r1.path = r2.path /\ r1.dflt = r2.dflt /\ r1.names = r2.names

\* The history of imports: any one import may be the one kept in firstImport;
\* every later import of the same module with the same list goes to laterImport.
Remember(r) ==
    IF firstImport = NoImport
      THEN /\ firstImport' \in {NoImport, r}
           /\ UNCHANGED laterImport
      ELSE /\ UNCHANGED firstImport
           /\ laterImport' = IF SameImport(firstImport, r) THEN r ELSE laterImport

\* The names an environment binds, in any scope.
EnvNames(sc) == UNION {DOMAIN sc[i] : i \in 1..Len(sc)}

\* The environment kept by visit(UseDeclaration) mutated: nothing is put back.
KeptEnvironment(f, sc) == sc

\* environment = savedEnvironment;
RestoredEnvironment(f, sc) == f.savedEnvironment

\* visit(ImportDeclaration), .axo branch, module not loaded yet: the path is
\* marked, the file is parsed, currentModulePath is set and interpret(ast) starts.
\* (namesBefore is history: the names the importer's environment held.)
ImportLoad(path, dflt, names) ==
    /\ UNCHANGED NotMod
    /\ ~AlreadyImported(path)
    /\ executed[path] < MaxExecutions
    /\ importedFiles' = importedFiles \cup {path}
    /\ loads' = Append(loads, [kind |-> "import", path |-> path, dflt |-> dflt,
                               names |-> names, savedModulePath |-> currentModulePath,
                               savedEnvironment |-> <<>>, namesBefore |-> EnvNames(scopes)])
    /\ currentModulePath' = path
    /\ executed' = [executed EXCEPT ![path] = @ + 1]
    /\ UNCHANGED <<scopes, moduleExports, moduleDefaultExports, firstImport, laterImport>>

\* visit(ImportDeclaration), module already in the set: only the bindings.
ImportAgain(path, dflt, names) ==
    /\ UNCHANGED NotMod
    /\ AlreadyImported(path)
    /\ scopes' = BindImports(scopes, path, dflt, names)
    /\ Remember(ImportRecord(path, dflt, names))
    /\ UNCHANGED <<loads, currentModulePath, importedFiles, moduleExports,
                   moduleDefaultExports, executed>>

\* visit(UseDeclaration), module not loaded yet: the environment is saved and
\* replaced by a fresh one with one scope.
UseLoad(path) ==
    /\ UNCHANGED NotMod
    /\ ~AlreadyImported(path)
    /\ executed[path] < MaxExecutions
    /\ importedFiles' = importedFiles \cup {path}
    /\ loads' = Append(loads, [kind |-> "use", path |-> path, dflt |-> "",
                               names |-> <<>>, savedModulePath |-> currentModulePath,
                               savedEnvironment |-> scopes, namesBefore |-> EnvNames(scopes)])
    /\ scopes' = <<EmptyScope>>
    /\ currentModulePath' = path
    /\ executed' = [executed EXCEPT ![path] = @ + 1]
    /\ UNCHANGED <<moduleExports, moduleDefaultExports, firstImport, laterImport>>

\* interpret(ast) of the module on top returns: currentModulePath is restored;
\* an import makes its bindings, a use restores the saved environment.
LoadEnd ==
    /\ UNCHANGED NotMod
    /\ loads # <<>>
    /\ LET f == loads[Len(loads)]
       IN  /\ loads' = SubSeq(loads, 1, Len(loads) - 1)
           /\ currentModulePath' = f.savedModulePath
           /\ IF f.kind = "import"
                THEN /\ scopes' = BindImports(scopes, f.path, f.dflt, f.names)
                     /\ Remember(ImportRecord(f.path, f.dflt, f.names))
                ELSE /\ scopes' = RestoredEnvironment(f, scopes)
                     /\ UNCHANGED <<firstImport, laterImport>>
    /\ UNCHANGED <<importedFiles, moduleExports, moduleDefaultExports, executed>>

\* visit(ExportDeclaration) of `export var name: int = value;` (default or not):
\* the variable is declared, then its value is attributed to the current module.
ExportVar(name, value, isDefault) ==
    /\ UNCHANGED NotMod
    /\ scopes' = Define(scopes, name, Variable(value, <<"i", "n", "t">>))
    /\ IF isDefault
         THEN /\ moduleDefaultExports' = Put(moduleDefaultExports, CurrentModule, value)
              /\ UNCHANGED moduleExports
         ELSE /\ moduleExports' =
                    Put(moduleExports, CurrentModule,
                        Put(IF CurrentModule \in DOMAIN moduleExports
                              THEN moduleExports[CurrentModule] ELSE NoExports,
                            name, value))
              /\ UNCHANGED moduleDefaultExports
    /\ UNCHANGED <<loads, currentModulePath, importedFiles, executed, firstImport, laterImport>>

\* visit(ExportDeclaration) of `export {name};`: copies the binding in scope; a
\* name that is not in scope is skipped and nothing changes.
ExportNamed(name) ==
    /\ UNCHANGED NotMod
    /\ EnvHas(scopes, name)
    /\ moduleExports' =
           Put(moduleExports, CurrentModule,
               Put(IF CurrentModule \in DOMAIN moduleExports
                     THEN moduleExports[CurrentModule] ELSE NoExports,
                   name, EnvGet(scopes, name).value))
    /\ UNCHANGED <<scopes, loads, currentModulePath, importedFiles, moduleDefaultExports,
                   executed, firstImport, laterImport>>

NextMod ==
    \/ \E path \in Paths, dflt \in DefaultNames, names \in ImportLists :
           ImportLoad(path, dflt, names)
    \/ \E path \in Paths, dflt \in DefaultNames, names \in ImportLists :
           ImportAgain(path, dflt, names)
    \/ \E path \in Paths : UseLoad(path)
    \/ LoadEnd
    \/ \E name \in ModNames, value \in ModValues, isDefault \in BOOLEAN :
           ExportVar(name, value, isDefault)
    \/ \E name \in ModNames : ExportNamed(name)

----------------------------------------------------------------------------
(* Part V: await of a program.  The caller is the thread that evaluates the  *)
(* main program; the worker is the std::async task that runs programRunner.  *)
(* Both act on the one Interpreter, so on the same `scopes`.                 *)

\* A std::shared_ptr<ArrayValue>: the address of an array on the heap.
RefV(addr) == [tag |-> "ref", v |-> addr]

IsRef(value) == value.tag = "ref"

\* The scalar values assigned, the variables of the main program, the
\* program's parameter, and the arguments it is awaited with.
AwaitValues == {IntV(1), IntV(2)}
AwaitNames == {"x", "a"}
ParamName == "p"
AwaitArgs == {"x", "a"}

IdleAwait ==
    /\ heap = <<>>
    /\ caller = "idle"
    /\ worker = "none"
    /\ argValues = <<>>
    /\ savedEnv = <<>>
    /\ snapshot = <<>>

\* var x: int = 1;  var a: [int] = [1];  program prog(p: any) { ... }
InitAwait ==
    /\ scopes = <<[n \in AwaitNames |->
                     IF n = "x" THEN Variable(IntV(1), <<"i", "n", "t">>)
                                ELSE Variable(RefV(1), <<"[", "i", "n", "t", "]">>)]>>
    /\ heap = [addr \in {1} |-> <<IntV(1)>>]
    /\ caller = "running"
    /\ worker = "none"
    /\ argValues = <<>>
    /\ savedEnv = <<>>
    /\ snapshot = [scopes |-> <<>>, heap |-> <<>>]

\* The thread th is executing statements.
Executing(th) ==
    IF th = "caller" THEN caller \in {"running", "joined"} ELSE worker = "body"

\* The caller's position after it executed a statement.
Stepped(th) == IF th = "caller" THEN caller' = "running" ELSE UNCHANGED caller

\* visit(Assignment) of `name = value;` by thread th: Environment::set.
Assign(th, name, value) ==
    /\ UNCHANGED NotAwait
    /\ Executing(th)
    /\ SetOutcome(name, value) = "ok"
    /\ scopes' = [scopes EXCEPT ![FindScope(name)][name].value = value]
    /\ Stepped(th)
    /\ UNCHANGED <<heap, worker, argValues, savedEnv, snapshot>>

\* visit(VariableDeclaration) of `var name: int = value;` by thread th:
\* Environment::define in the innermost scope.
Declare(th, name, value) ==
    /\ UNCHANGED NotAwait
    /\ Executing(th)
    /\ scopes' = Define(scopes, name, Variable(value, <<"i", "n", "t">>))
    /\ Stepped(th)
    /\ UNCHANGED <<heap, worker, argValues, savedEnv, snapshot>>

\* visit(IndexAssignment) of `name[0] = value;` by thread th, name holding an
\* array: the element is written through the shared_ptr.
IndexAssign(th, name, value) ==
    /\ UNCHANGED NotAwait
    /\ Executing(th)
    /\ EnvHas(scopes, name)
    /\ IsRef(EnvGet(scopes, name).value)
    /\ LET arr == EnvGet(scopes, name).value.v
       IN  /\ 0 < Len(heap[arr])
           /\ heap' = [heap EXCEPT ![arr][1] = value]
    /\ Stepped(th)
    /\ UNCHANGED <<scopes, worker, argValues, savedEnv, snapshot>>

\* visit(AwaitExpression) up to std::async: the argument is evaluated on the
\* caller's thread and the task is started.
AwaitDispatch(arg) ==
    /\ UNCHANGED NotAwait
    /\ Executing("caller")
    /\ worker \in {"none", "done"}
    /\ EnvHas(scopes, arg)
    /\ argValues' = <<EnvGet(scopes, arg).value>>
    /\ caller' = "waiting"
    /\ worker' = "start"
    /\ snapshot' = [scopes |-> scopes, heap |-> heap]
    /\ UNCHANGED <<scopes, heap, savedEnv>>

\* programRunner up to executeBlock's first statement: localEnv is a copy of
\* this->environment with a scope for the parameters; this->environment is
\* saved and replaced by localEnv; executeBlock pushes the body's scope.
programRunnerStart ==
    /\ UNCHANGED NotAwait
    /\ worker = "start"
    /\ savedEnv' = scopes
    /\ scopes' = scopes \o
                   <<[n \in {ParamName} |-> Variable(argValues[1], <<"a", "n", "y">>)],
                     EmptyScope>>
    /\ worker' = "body"
    /\ UNCHANGED <<heap, caller, argValues, snapshot>>

\* programRunner after executeBlock returned, or in its catch (...) handler:
\* this->environment = savedEnv.  The exception, if any, stays in the future.
programRunnerEnd ==
    /\ UNCHANGED NotAwait
    /\ worker = "body"
    /\ scopes' = savedEnv
    /\ worker' = "done"
    /\ UNCHANGED <<heap, caller, argValues, savedEnv, snapshot>>

\* The join with the guard mutated: the caller does not wait for the task.
TaskFinishedNoWait == TRUE

\* future.wait() returns when the task has finished.
TaskFinished == worker = "done"

\* visit(AwaitExpression) from future.wait() to its return.
FutureWait ==
    /\ UNCHANGED NotAwait
    /\ caller = "waiting"
    /\ TaskFinished
    /\ caller' = "joined"
    /\ UNCHANGED <<scopes, heap, worker, argValues, savedEnv, snapshot>>

Threads == {"caller", "worker"}

NextAwait ==
    \/ \E th \in Threads, name \in AwaitNames \cup {ParamName}, value \in AwaitValues :
           Assign(th, name, value)
    \/ \E th \in Threads, name \in AwaitNames, value \in AwaitValues :
           Declare(th, name, value)
    \/ \E th \in Threads, name \in AwaitNames \cup {ParamName}, value \in AwaitValues :
           IndexAssign(th, name, value)
    \/ \E arg \in AwaitArgs : AwaitDispatch(arg)
    \/ programRunnerStart
    \/ programRunnerEnd
    \/ FutureWait

----------------------------------------------------------------------------
(* Part VI: the switch statement *)

\* The longest list of clauses the model explores.
MaxClauses == 3

\* Literal expressions: IntegerLiteral, StringLiteral.
IntLit(n) == [kind |-> "IntegerLiteral", value |-> n]
StrLit(s) == [kind |-> "StringLiteral", value |-> s]

\* The discriminants and case values: 1, 2 and "1".
SwitchExprs == {IntLit(1), IntLit(2), StrLit(<<"1">>)}

\* How the statements of a clause end: normally, with `break;`, or with
\* another signal (`return`, `throw`, `continue`).
ClauseEnds == {"normal", "break", "signal"}

\* A CaseClause node.
Clauses ==
    [isDefault : {TRUE}, value : {IntLit(0)}, ends : ClauseEnds]
      \cup [isDefault : {FALSE}, value : SwitchExprs, ends : ClauseEnds]

RECURSIVE ClauseLists(_)
ClauseLists(n) ==
    IF n = 0 THEN {<<>>}
    ELSE LET shorter == ClauseLists(n - 1)
         IN  shorter \cup {Append(l, c) : l \in {m \in shorter : Len(m) = n - 1}, c \in Clauses}

\* std::to_string of an int.
RECURSIVE NatToString(_)
NatToString(n) ==
    LET digit == CHOOSE c \in Digits : DigitValue(c) = n % 10
    IN  IF n < 10 THEN <<digit>> ELSE Append(NatToString(n \div 10), digit)

to_string(n) == IF n < 0 THEN <<"-">> \o NatToString(0 - n) ELSE NatToString(n)

RECURSIVE valueToString(_)
RECURSIVE JoinElements(_, _)
RECURSIVE JoinFields(_, _)

\* The loop of valueToString over arr->elements, from element i.
JoinElements(elements, i) ==
    IF i > Len(elements) THEN <<>>
    ELSE (IF i > 1 THEN <<",", " ">> ELSE <<>>)
           \o valueToString(elements[i]) \o JoinElements(elements, i + 1)

\* The loop of valueToString over obj->fields, for the keys not yet visited;
\* the order is that of the unordered_map.
JoinFields(fields, keys) ==
    IF keys = {} THEN <<>>
    ELSE LET key == CHOOSE k \in keys : TRUE
         IN  (IF keys # DOMAIN fields THEN <<",", " ">> ELSE <<>>)
               \o key \o <<":", " ">> \o valueToString(fields[key])
               \o JoinFields(fields, keys \ {key})

\* Interpreter::valueToString.  A float is one with an integral value, which
\* the stream prints without a decimal point.
valueToString(v) ==
    IF v.tag = "int" THEN to_string(v.v)
    ELSE IF v.tag = "float" THEN to_string(v.v)
    ELSE IF v.tag = "string" THEN v.v
    ELSE IF v.tag = "bool" THEN (IF v.v THEN <<"t", "r", "u", "e">> ELSE <<"f", "a", "l", "s", "e">>)
    ELSE IF v.tag = "function" THEN <<"[", "f", "u", "n", "c", "t", "i", "o", "n", "]">>
    ELSE IF v.tag = "array" THEN <<"[">> \o JoinElements(v.v, 1) \o <<"]">>
    ELSE IF v.tag = "object" THEN <<"{">> \o JoinFields(v.v, DOMAIN v.v) \o <<"}">>
    ELSE <<>>

\* Interpreter::evaluate of a literal: an IntegerLiteral is visited to its
\* decimal text and read back with std::stoi; a StringLiteral without `${`
\* is handed over in lastValue under the marker "[string]".
evaluate(expr) ==
    IF expr.kind = "IntegerLiteral" THEN IntV(stoi(to_string(expr.value)).value)
    ELSE StrV(expr.value)

IdleSwitch ==
    /\ node = <<>>
    /\ discriminantValue = IntV(0)
    /\ clause = 0
    /\ matched = FALSE
    /\ fallthrough = FALSE
    /\ swExit = "idle"
    /\ ran = {}

InitSwitch ==
    /\ node \in [discriminant : SwitchExprs, cases : ClauseLists(MaxClauses)]
    /\ discriminantValue = IntV(0)
    /\ clause = 0
    /\ matched = FALSE
    /\ fallthrough = FALSE
    /\ swExit = "no"
    /\ ran = {}

\* Value discriminantValue = evaluate(node->discriminant.get()); and the two flags.
EvaluateDiscriminant ==
    /\ UNCHANGED NotSwitch
    /\ swExit = "no"
    /\ clause = 0
    /\ discriminantValue' = evaluate(node.discriminant)
    /\ matched' = FALSE
    /\ fallthrough' = FALSE
    /\ clause' = 1
    /\ UNCHANGED <<node, swExit, ran>>

\* The body of `if (...) { matched = true; fallthrough = true; for (stmt) ... }`:
\* the statements either complete (the loop goes on), or throw BreakException
\* (caught: the switch returns), or throw something else (not caught here).
RunStatements(c, runs) ==
    IF runs
      THEN /\ matched' = TRUE
           /\ fallthrough' = TRUE
           /\ ran' = ran \cup {clause}
           /\ IF c.ends = "normal"
                THEN clause' = clause + 1 /\ UNCHANGED swExit
                ELSE swExit' = c.ends /\ UNCHANGED clause
      ELSE /\ clause' = clause + 1
           /\ UNCHANGED <<matched, fallthrough, ran, swExit>>

\* if (!matched || fallthrough)
DefaultRuns(m, ft) == ~m \/ ft

\* The test of a regular case mutated: fall-through is ignored.
CaseRunsOnMatchOnly(caseMatches, ft) == caseMatches

\* if (caseMatches || fallthrough)
CaseRuns(caseMatches, ft) == caseMatches \/ ft

\* One iteration of the loop over node->cases, at a default clause.
DefaultClause ==
    /\ UNCHANGED NotSwitch
    /\ swExit = "no"
    /\ clause \in 1..Len(node.cases)
    /\ node.cases[clause].isDefault
    /\ RunStatements(node.cases[clause], DefaultRuns(matched, fallthrough))
    /\ UNCHANGED <<node, discriminantValue>>

\* One iteration of the loop over node->cases, at a regular case: the case
\* value is evaluated and the string forms are compared.
CaseClause ==
    /\ UNCHANGED NotSwitch
    /\ swExit = "no"
    /\ clause \in 1..Len(node.cases)
    /\ ~node.cases[clause].isDefault
    /\ LET caseValue == evaluate(node.cases[clause].value)
           caseMatches == valueToString(discriminantValue) = valueToString(caseValue)
       IN  RunStatements(node.cases[clause], CaseRuns(caseMatches, fallthrough))
    /\ UNCHANGED <<node, discriminantValue>>

\* The loop is over: return "".
SwitchReturn ==
    /\ UNCHANGED NotSwitch
    /\ swExit = "no"
    /\ clause = Len(node.cases) + 1
    /\ swExit' = "end"
    /\ UNCHANGED <<node, discriminantValue, clause, matched, fallthrough, ran>>

NextSwitch ==
    \/ EvaluateDiscriminant
    \/ DefaultClause
    \/ CaseClause
    \/ SwitchReturn

----------------------------------------------------------------------------
(* Part VII: loops and the JIT compiler.  The loop is given to the JIT       *)
(* compiler (envJit) and, from the same environment, to the interpreted      *)
(* execution that visit(WhileStatement) / visit(ForStatement) fall back to   *)
(* (envInterp).                                                               *)

\* The largest limit N of a condition `i < N`, the longest body, and the
\* largest value a variable takes before the execution is cut off.
MaxLimit == 3
MaxBody == 2
MaxValue == 8

IntType == <<"i", "n", "t">>

\* Statements of a loop body: `target = target + k;` and `target = k;`.
Increment(target, k) == [op |-> "inc", target |-> target, k |-> k]
Store(target, k) == [op |-> "set", target |-> target, k |-> k]

BodyStatements ==
    {Increment("i", 1), Increment("i", 2), Increment("s", 1), Store("s", 0)}

Bodies == UNION {[1..n -> BodyStatements] : n \in 1..MaxBody}

\* The initializer of `for (var i: int = <init>; ...)`: a literal or the identifier s.
ForInits == {[lit |-> TRUE, value |-> 0], [lit |-> TRUE, value |-> 1], [lit |-> FALSE, value |-> 0]}

\* while (i < limit) body   and   for (var i: int = init; i < limit; i = i + inc) body
LoopStatements ==
    [kind : {"while"}, limit : 0..MaxLimit, body : Bodies, init : {[lit |-> TRUE, value |-> 0]},
     inc : {1}]
      \cup [kind : {"for"}, limit : 0..MaxLimit, body : Bodies, init : ForInits, inc : {1, 2}]

IdleLoop ==
    /\ loopStmt = <<>>
    /\ envStart = <<>>
    /\ envInterp = <<>>
    /\ ipc = [at |-> "idle", idx |-> 0]
    /\ envJit = <<>>
    /\ jit = "idle"

\* var i: int = ...;  var s: int = ...;  then the loop.
InitLoop ==
    /\ loopStmt \in LoopStatements
    /\ envStart \in {<<[n \in {"i", "s"} |->
                          Variable(IntV(IF n = "i" THEN i0 ELSE s0), IntType)]>> :
                        i0 \in 0..1, s0 \in 0..1}
    /\ envInterp = envStart
    /\ ipc = [at |-> "enter", idx |-> 0]
    /\ envJit = envStart
    /\ jit = "pending"

\* Environment::set on an environment sc, for a name that is defined.
SetIn(sc, name, value) ==
    LET k == CHOOSE k \in 1..Len(sc) :
                 /\ name \in DOMAIN sc[k]
                 /\ \A j \in (k + 1)..Len(sc) : name \notin DOMAIN sc[j]
    IN  [sc EXCEPT ![k][name].value = value]

IntOf(sc, name) == EnvGet(sc, name).value.v

\* matchIncrement: `id = id + CONST`.
matchIncrement(stmt) == stmt.op = "inc"

\* The (id, inc) pairs compileAndExecute collects from the body, in order.
Increments(body) == SelectSeq(body, matchIncrement)

\* isCompilable(WhileStatement*): condition `id < INT` and at least one
\* increment in the body.  isCompilable(ForStatement*): init `var i: int = e`,
\* condition on i, update an increment of i (all so by the shape of loopStmt).
isCompilable(stmt) ==
    IF stmt.kind = "while" THEN Increments(stmt.body) # <<>> ELSE TRUE

\* "Update variables directly": the loop over increments, each entry read
\* from and written to the environment in turn.
RECURSIVE ApplyIncrements(_, _, _, _, _)
ApplyIncrements(sc, incs, loopId, loopVal, iterations) ==
    IF incs = <<>> THEN sc
    ELSE LET p == Head(incs)
             next == IF p.target = loopId
                       THEN SetIn(sc, loopId, IntV(loopVal + p.k * iterations))
                       ELSE SetIn(sc, p.target, IntV(IntOf(sc, p.target) + p.k * iterations))
         IN  ApplyIncrements(next, Tail(incs), loopId, loopVal, iterations)

\* compileAndExecute(WhileStatement*, ...): iterations = limit - loopVal.
compileAndExecuteWhile(stmt, sc) ==
    LET loopVal == IntOf(sc, "i")
        iterations == stmt.limit - loopVal
    IN  IF iterations <= 0 THEN sc
        ELSE ApplyIncrements(sc, Increments(stmt.body), "i", loopVal, iterations)

IsOther(stmt) == stmt.op = "inc" /\ stmt.target # "i"

\* compileAndExecute(ForStatement*, ...): initVal is the literal of the
\* initializer, 0 if it is not a literal; iterations = limit - initVal; the
\* increments of other variables are applied and i is defined as limit.
compileAndExecuteFor(stmt, sc) ==
    LET initVal == IF stmt.init.lit THEN stmt.init.value ELSE 0
        iterations == stmt.limit - initVal
    IN  IF iterations <= 0 THEN sc
        ELSE Define(ApplyIncrements(sc, SelectSeq(stmt.body, IsOther), "", 0, iterations),
                    "i", Variable(IntV(stmt.limit), IntType))

\* environment.pushScope(); node->init->accept(this);
ForScope(stmt, sc) ==
    Define(sc \o <<EmptyScope>>, "i",
           Variable(IntV(IF stmt.init.lit THEN stmt.init.value ELSE IntOf(sc, "s")), IntType))

\* environment.popScope();
PopScope(sc) == SubSeq(sc, 1, Len(sc) - 1)

\* visit(WhileStatement) / visit(ForStatement), the JIT branch taken and
\* compileAndExecute returned true: the statement returns.
JitHandle ==
    /\ UNCHANGED NotLoop
    /\ jit = "pending"
    /\ isCompilable(loopStmt)
    /\ envJit' = IF loopStmt.kind = "while"
                   THEN compileAndExecuteWhile(loopStmt, envJit)
                   ELSE PopScope(compileAndExecuteFor(loopStmt, ForScope(loopStmt, envJit)))
    /\ jit' = "handled"
    /\ UNCHANGED <<loopStmt, envStart, envInterp, ipc>>

\* The JIT branch not taken: "Fallback to interpreted execution".
JitDecline ==
    /\ UNCHANGED NotLoop
    /\ jit = "pending"
    /\ ~isCompilable(loopStmt)
    /\ jit' = "fallback"
    /\ UNCHANGED <<loopStmt, envStart, envInterp, ipc, envJit>>

\* Interpreted execution: for a for loop pushScope and the init.
InterpEnter ==
    /\ UNCHANGED NotLoop
    /\ ipc.at = "enter"
    /\ envInterp' = IF loopStmt.kind = "for" THEN ForScope(loopStmt, envInterp) ELSE envInterp
    /\ ipc' = [at |-> "test", idx |-> 0]
    /\ UNCHANGED <<loopStmt, envStart, envJit, jit>>

\* while (isTruthy(evaluate(node->condition.get()))): `i < limit` on ints.
InterpTest ==
    /\ UNCHANGED NotLoop
    /\ ipc.at = "test"
    /\ IF IntOf(envInterp, "i") < loopStmt.limit
         THEN ipc' = [at |-> "body", idx |-> 1] /\ UNCHANGED envInterp
         ELSE /\ ipc' = [at |-> "done", idx |-> 0]
              /\ envInterp' = IF loopStmt.kind = "for" THEN PopScope(envInterp) ELSE envInterp
    /\ UNCHANGED <<loopStmt, envStart, envJit, jit>>

\* executeBlock(node->body.get()): one statement of the body, an Assignment.
\* (The scope executeBlock pushes stays empty and is popped at the end.)
InterpStatement ==
    /\ UNCHANGED NotLoop
    /\ ipc.at = "body"
    /\ LET stmt == loopStmt.body[ipc.idx]
           value == IF stmt.op = "inc" THEN IntOf(envInterp, stmt.target) + stmt.k ELSE stmt.k
       IN  /\ value <= MaxValue
           /\ envInterp' = SetIn(envInterp, stmt.target, IntV(value))
    /\ ipc' = IF ipc.idx < Len(loopStmt.body)
                THEN [at |-> "body", idx |-> ipc.idx + 1]
                ELSE [at |-> IF loopStmt.kind = "for" THEN "update" ELSE "test", idx |-> 0]
    /\ UNCHANGED <<loopStmt, envStart, envJit, jit>>

\* evaluate(node->update.get()): `i = i + inc`.
InterpUpdate ==
    /\ UNCHANGED NotLoop
    /\ ipc.at = "update"
    /\ IntOf(envInterp, "i") + loopStmt.inc <= MaxValue
    /\ envInterp' = SetIn(envInterp, "i", IntV(IntOf(envInterp, "i") + loopStmt.inc))
    /\ ipc' = [at |-> "test", idx |-> 0]
    /\ UNCHANGED <<loopStmt, envStart, envJit, jit>>

NextLoop ==
    \/ JitHandle
    \/ JitDecline
    \/ InterpEnter
    \/ InterpTest
    \/ InterpStatement
    \/ InterpUpdate

----------------------------------------------------------------------------
(* Part VIII: calls by name.  A main program declares programs, functions   *)
(* and variables, then calls them; visit(FunctionCall) is followed step by  *)
(* step: resolution, pushScope, one argument at a time, body and popScope.  *)

\* The calls of one behaviour.
MaxCalls == 2

\* The names called and declared: one built-in name and one other name.
CallNames == {"print", "f"}

\* The names the chain of `if (callName == ...)` tests, of which print is one.
Builtins == {"print"}

\* Parameter lists of the declarations: () and (a, b).
ParamLists == {<<>>, <<"a", "b">>}

Ident(name) == [kind |-> "Identifier", value |-> name]

\* Argument lists of the calls: (), and two arguments out of 1 and a.
ArgLists ==
    {<<>>} \cup {<<x, y>> : x \in {IntLit(1), Ident("a")}, y \in {IntLit(1), Ident("a")}}

AnyType == <<"a", "n", "y">>

FunctionType == <<"f", "u", "n", "c", "t", "i", "o", "n">>

\* The variants FunctionDeclaration* and FunctionExpression* of Value.
FuncDeclV(params) ==
    [tag |-> "function", v |-> [node |-> "FunctionDeclaration", params |-> params]]

FuncExprV(params) ==
    [tag |-> "function", v |-> [node |-> "FunctionExpression", params |-> params]]

NoCall ==
    [at |-> "idle", count |-> 0, name |-> "", args |-> <<>>, handler |-> "",
     params |-> <<>>, next |-> 0, bound |-> <<>>, before |-> <<>>]

\* The registries `programs` and `functions` before any declaration.
NoDeclarations == [n \in {} |-> <<>>]

IdleCall ==
    /\ programs = NoDeclarations
    /\ functions = NoDeclarations
    /\ call = NoCall
    /\ events = <<>>

\* var a: int = 2;
InitCall ==
    /\ scopes = <<Put(EmptyScope, "a", Variable(IntV(2), IntType))>>
    /\ IdleCall

\* visit(ProgramDeclaration)
DeclareProgram(name, params) ==
    /\ UNCHANGED NotCall
    /\ call.count = 0
    /\ programs' = Put(programs, name, params)
    /\ UNCHANGED <<functions, scopes, call, events>>

\* visit(FunctionDeclaration)
DeclareFunction(name, params) ==
    /\ UNCHANGED NotCall
    /\ call.count = 0
    /\ functions' = Put(functions, name, params)
    /\ scopes' = Define(scopes, name, Variable(FuncDeclV(params), FunctionType))
    /\ UNCHANGED <<programs, call, events>>

\* visit(VariableDeclaration) of `var name: any = func(...) {...};` or
\* `var name: any = 1;`
DeclareFunctionVariable(name, value) ==
    /\ UNCHANGED NotCall
    /\ call.count = 0
    /\ scopes' = Define(scopes, name, Variable(value, AnyType))
    /\ UNCHANGED <<programs, functions, call, events>>

\* Which part of visit(FunctionCall) takes a call of `name`: the built-in
\* tests, programs.find, functions.find, environment.has, in this order.
ResolveCallFunctionsFirst(name) ==
    IF name \in Builtins THEN "builtin"
    ELSE IF name \in DOMAIN functions THEN "function"
    ELSE IF name \in DOMAIN programs THEN "program"
    ELSE IF EnvHas(scopes, name) THEN "environment"
    ELSE "undefined"

ResolveCall(name) ==
    IF name \in Builtins THEN "builtin"
    ELSE IF name \in DOMAIN programs THEN "program"
    ELSE IF name \in DOMAIN functions THEN "function"
    ELSE IF EnvHas(scopes, name) THEN "environment"
    ELSE "undefined"

\* The declaration the handler calls: prog->params, func->params.
CalleeParams(handler, name) ==
    IF handler = "program" THEN programs[name]
    ELSE IF handler = "function" THEN functions[name]
    ELSE EnvGet(scopes, name).value.v.params

\* evaluate of an argument: an IntegerLiteral, or an Identifier read with
\* Environment::get in the environment as it is at this moment.
EvaluateArgument(sc, expr) ==
    IF expr.kind = "Identifier"
    THEN LET value == EnvGet(sc, expr.value).value
         IN  IF value.tag = "int" THEN IntV(stoi(to_string(value.v)).value) ELSE value
    ELSE evaluate(expr)

Evaluated(i) == [op |-> "evaluate", arg |-> i]

Defined(i) == [op |-> "define", arg |-> i]

Pushed == [op |-> "pushScope", arg |-> 0]

\* visit(FunctionCall) up to the loop over the arguments.  print evaluates
\* its arguments and returns; a user callable of the right arity has its
\* scope pushed; anything else throws.
CallDispatch(name, args) ==
    /\ UNCHANGED NotCall
    /\ call.at = "idle"
    /\ call.count < MaxCalls
    /\ LET handler == ResolveCall(name)
           started == [NoCall EXCEPT !.count = call.count + 1, !.name = name,
                                     !.args = args, !.handler = handler,
                                     !.before = scopes]
           callable == \/ handler \in {"program", "function"}
                       \/ /\ handler = "environment"
                          /\ EnvGet(scopes, name).value.tag = "function"
       IN  IF handler = "builtin"
           THEN /\ call' = started
                /\ events' = [i \in 1..Len(args) |-> Evaluated(i)]
                /\ UNCHANGED scopes
           ELSE IF callable /\ Len(CalleeParams(handler, name)) = Len(args)
           THEN /\ call' = [started EXCEPT !.at = "args", !.next = 1,
                                           !.params = CalleeParams(handler, name)]
                /\ events' = <<Pushed>>
                /\ scopes' = Append(scopes, EmptyScope)
           ELSE /\ call' = started
                /\ events' = <<>>
                /\ UNCHANGED scopes
    /\ UNCHANGED <<programs, functions>>

\* One turn of the loop over the arguments: evaluate(node->args[i]), then
\* environment.define of the i-th parameter.
CallBindArgument ==
    /\ UNCHANGED NotCall
    /\ call.at = "args"
    /\ call.next <= Len(call.args)
    /\ LET argVal == EvaluateArgument(scopes, call.args[call.next])
       IN  scopes' = Define(scopes, call.params[call.next], Variable(argVal, AnyType))
    /\ events' = events \o <<Evaluated(call.next), Defined(call.next)>>
    /\ call' = [call EXCEPT !.next = call.next + 1]
    /\ UNCHANGED <<programs, functions>>

\* executeBlock of a body that ends in `return`: the block's scope is
\* pushed, ReturnException leaves executeBlock before its popScope, and the
\* handler in visit(FunctionCall) pops one scope.
CallReturnStatement ==
    /\ UNCHANGED NotCall
    /\ call.at = "args"
    /\ call.next > Len(call.args)
    /\ call' = [call EXCEPT !.at = "idle",
                            !.bound = [i \in 1..Len(call.params) |->
                                          EnvGet(scopes, call.params[i]).value]]
    /\ scopes' = PopScope(Append(scopes, EmptyScope))
    /\ UNCHANGED <<programs, functions, events>>

\* executeBlock of a body that runs to its end, which reads its parameters,
\* then popScope.
CallReturn ==
    /\ UNCHANGED NotCall
    /\ call.at = "args"
    /\ call.next > Len(call.args)
    /\ call' = [call EXCEPT !.at = "idle",
                            !.bound = [i \in 1..Len(call.params) |->
                                          EnvGet(scopes, call.params[i]).value]]
    /\ scopes' = PopScope(scopes)
    /\ UNCHANGED <<programs, functions, events>>

NextCall ==
    \/ \E name \in CallNames, params \in ParamLists : DeclareProgram(name, params)
    \/ \E name \in CallNames, params \in ParamLists : DeclareFunction(name, params)
    \/ \E name \in CallNames, value \in {FuncExprV(<<"a", "b">>), IntV(1)} :
           DeclareFunctionVariable(name, value)
    \/ \E name \in CallNames, args \in ArgLists : CallDispatch(name, args)
    \/ CallBindArgument
    \/ CallReturn
    \/ CallReturnStatement

----------------------------------------------------------------------------
(* Part IX: a variable declaration with a declaration type and an initializer: *)
(* the matcher decides between the definition and a type error.             *)

\* The initializers: 1, "a", [], [1], ["a"], [1, "a"], [[1, "a"]],
\* {x: 1} and {x: 1, y: 1}.
DeclValues ==
    {IntV(1), StrV(<<"a">>), ArrV(<<>>), ArrV(<<IntV(1)>>), ArrV(<<StrV(<<"a">>)>>),
     ArrV(<<IntV(1), StrV(<<"a">>)>>), ArrV(<<ArrV(<<IntV(1), StrV(<<"a">>)>>)>>),
     ObjV(X1), ArrV(<<ObjV(X1)>>)}

\* The declared types, as the parser emits them.
DeclTypes ==
    {<<"i", "n", "t">>,
     <<"T">>,
     <<"i", "n", "t", "|", "s", "t", "r", "i", "n", "g">>,
     <<"[", "i", "n", "t", "]">>,
     <<"[", "i", "n", "t", "|", "s", "t", "r", "i", "n", "g", "]">>,
     <<"[", "i", "n", "t", ",", "s", "t", "r", "i", "n", "g", "]">>,
     <<"[", "[", "i", "n", "t", ",", "s", "t", "r", "i", "n", "g", "]", "]">>,
     <<"[", "{", "x", ":", "i", "n", "t", "}", "]">>,
     <<"[", "i", "n", "t", "]", "|", "[", "s", "t", "r", "i", "n", "g", "]">>,
     <<"i", "n", "t", "|", "[", "i", "n", "t", "|", "s", "t", "r", "i", "n", "g", "]">>,
     <<"{", "x", ":", "i", "n", "t", "}", "|", "i", "n", "t">>,
     <<"{", "x", ":", "i", "n", "t", "|", "s", "t", "r", "i", "n", "g", "}">>}

IdleDecl ==
    /\ declaration = [value |-> IntV(0), type |-> <<>>]
    /\ declOutcome = "idle"

InitDecl ==
    /\ declaration \in [value : DeclValues, type : DeclTypes]
    /\ declOutcome = "pending"
    /\ scopes = <<EmptyScope>>

\* visit(VariableDeclaration): the initializer matches the declared type and
\* the variable is defined.
DeclareMatching ==
    /\ UNCHANGED NotDecl
    /\ declOutcome = "pending"
    /\ valueMatchesType(declaration.value, declaration.type)
    /\ declOutcome' = "defined"
    /\ scopes' = Define(scopes, "x", Variable(declaration.value, declaration.type))
    /\ UNCHANGED declaration

\* visit(VariableDeclaration): the initializer does not match; "Type error"
\* is thrown and nothing is defined.
DeclareTypeError ==
    /\ UNCHANGED NotDecl
    /\ declOutcome = "pending"
    /\ ~valueMatchesType(declaration.value, declaration.type)
    /\ declOutcome' = "type error"
    /\ UNCHANGED <<declaration, scopes>>

NextDecl ==
    \/ DeclareMatching
    \/ DeclareTypeError

----------------------------------------------------------------------------
(* Part X: expressions over variables.  Two variables l and r hold values   *)
(* of every variant; one statement is executed over them: `l + r;`,         *)
(* `if (l) {...} else {...}` or `push(l, pop(l));`.                          *)

StringArrayType == <<"[", "s", "t", "r", "i", "n", "g", "]">>

\* The values of l and r: 0, 1, "", "1", "01", "a", true, false, [], [1],
\* ["a"], ["01"], [[1]], {}, {x: 1} and a function.
OperandValues ==
    {IntV(0), IntV(1), StrV(<<>>), StrV(<<"1">>), StrV(<<"0", "1">>), StrV(<<"a">>),
     BoolV(TRUE), BoolV(FALSE), ArrV(<<>>), ArrV(<<IntV(1)>>), ArrV(<<StrV(<<"a">>)>>),
     ArrV(<<StrV(<<"0", "1">>)>>), ArrV(<<ArrV(<<IntV(1)>>)>>), ObjV(EmptyScope),
     ObjV(X1), FuncV}

\* The declared types of l.
OperandTypes == {AnyType, StringArrayType, IntType, <<"T">>}

\* lastVariableName and lastVariable before any identifier is read, and
\* after a typeof.
NoVariable == [name |-> "", type |-> IntType]

IdleEval ==
    /\ statement = "idle"
    /\ lastValue = IntV(0)
    /\ taken = "none"
    /\ lastVariable = NoVariable

\* var l: <type> = <value>;  var r: any = <value>;
InitEval ==
    /\ \E lv \in OperandValues, rv \in OperandValues, lt \in OperandTypes :
           /\ valueMatchesType(lv, lt)
           /\ scopes = <<Put(Put(EmptyScope, "l", Variable(lv, lt)),
                            "r", Variable(rv, AnyType))>>
    /\ statement = "pending"
    /\ lastValue = IntV(0)
    /\ taken = "none"
    /\ lastVariable = NoVariable

\* The strings under which evaluate returns lastValue.
Markers ==
    {<<"[", "a", "r", "r", "a", "y", "]">>,
     <<"{", "o", "b", "j", "e", "c", "t", "}">>,
     <<"[", "f", "u", "n", "c", "t", "i", "o", "n", "]">>,
     <<"[", "b", "o", "o", "l", "]">>,
     <<"[", "i", "n", "t", "]">>,
     <<"[", "s", "t", "r", "i", "n", "g", "]">>}

\* Interpreter::evaluate after expr->accept returned `result`, with `last`
\* in lastValue.  The texts here hold no '.', so std::stof is never reached.
textToValue(result, last) ==
    IF result \in Markers THEN last
    ELSE IF result = <<>> THEN StrV(<<>>)
    ELSE IF result = <<"t", "r", "u", "e">> THEN BoolV(TRUE)
    ELSE IF result = <<"f", "a", "l", "s", "e">> THEN BoolV(FALSE)
    ELSE IF stoi(result).ok THEN IntV(stoi(result).value)
    ELSE StrV(result)

\* visit(Identifier): whether the value is handed over in lastValue.
HandedOver(value) == value.tag \in {"array", "object", "function", "string"}

\* lastValue after visit(Identifier) of a variable holding `value`.
LastAfter(last, value) == IF HandedOver(value) THEN value ELSE last

\* evaluate of an Identifier.
evaluateIdentifier(sc, name, last) ==
    LET value == EnvGet(sc, name).value
    IN  IF HandedOver(value) THEN value ELSE textToValue(valueToString(value), last)

\* Interpreter::performBinaryOp for BinaryOperator::ADD.
performBinaryOp(left, right) ==
    IF left.tag = "int" /\ right.tag = "int" THEN IntV(left.v + right.v)
    ELSE IF left.tag = "float" /\ right.tag = "float" THEN FloatV(left.v + right.v)
    ELSE StrV(valueToString(left) \o valueToString(right))

isTruthy(v) ==
    IF v.tag = "bool" THEN v.v
    ELSE IF v.tag = "int" THEN v.v # 0
    ELSE IF v.tag = "float" THEN v.v # 0
    ELSE IF v.tag = "string" THEN v.v # <<>>
    ELSE IF v.tag = "array" THEN v.v # <<>>
    ELSE IF v.tag = "object" THEN DOMAIN v.v # {}
    ELSE FALSE

\* visit(Identifier): lastVariable and lastVariableName after reading `name`.
Read(sc, name) == [name |-> name, type |-> EnvGet(sc, name).type]

\* The runtime tag name getTypeOfValue falls back to.
TagName(v) ==
    IF v.tag = "int" THEN <<"i", "n", "t">>
    ELSE IF v.tag = "float" THEN <<"f", "l", "o", "a", "t">>
    ELSE IF v.tag = "string" THEN <<"s", "t", "r", "i", "n", "g">>
    ELSE IF v.tag = "bool" THEN <<"b", "o", "o", "l">>
    ELSE IF v.tag = "function" THEN <<"f", "u", "n", "c", "t", "i", "o", "n">>
    ELSE IF v.tag = "array" THEN <<"a", "r", "r", "a", "y">>
    ELSE IF v.tag = "object" THEN <<"o", "b", "j", "e", "c", "t">>
    ELSE <<"u", "n", "k", "n", "o", "w", "n">>

\* Interpreter::getTypeOfValue with `var` in lastVariable / lastVariableName.
getTypeOfValue(v, var) ==
    LET declaredType == var.type
        n == Len(declaredType)
    IN  IF var.name # "" /\ n > 0
             /\ \/ declaredType \in DOMAIN typeRegistry
                \/ declaredType = <<"i", "n", "t">> /\ v.tag = "int"
                \/ declaredType = <<"f", "l", "o", "a", "t">> /\ v.tag = "float"
                \/ declaredType = <<"s", "t", "r", "i", "n", "g">> /\ v.tag = "string"
                \/ declaredType = <<"b", "o", "o", "l">> /\ v.tag = "bool"
                \/ declaredType = FunctionType /\ v.tag = "function"
                \/ n >= 2 /\ declaredType[1] = "[" /\ declaredType[n] = "]" /\ v.tag = "array"
                \/ declaredType = <<"o", "b", "j", "e", "c", "t">> /\ v.tag = "object"
        THEN declaredType
        ELSE TagName(v)

\* evaluate of `typeof l`: the operand is evaluated, performUnaryOp asks
\* getTypeOfValue and clears lastVariable, visit(UnaryOp) returns the type
\* name as text and evaluate reads it back.
TypeofIdentifier ==
    /\ UNCHANGED NotEval
    /\ statement = "pending"
    /\ LET operand == evaluateIdentifier(scopes, "l", lastValue)
           last == LastAfter(lastValue, EnvGet(scopes, "l").value)
           typeStr == getTypeOfValue(operand, Read(scopes, "l"))
       IN  lastValue' = textToValue(typeStr, last)
    /\ statement' = "typeof identifier"
    /\ lastVariable' = NoVariable
    /\ UNCHANGED <<scopes, taken>>

\* evaluate of `typeof 1`, as the first statement or after another one.
TypeofLiteral ==
    /\ UNCHANGED NotEval
    /\ statement \in {"pending", "if", "add"}
    /\ lastValue' = textToValue(getTypeOfValue(evaluate(IntLit(1)), lastVariable), lastValue)
    /\ statement' = "typeof literal"
    /\ lastVariable' = NoVariable
    /\ UNCHANGED <<scopes, taken>>

\* evaluate of the BinaryOp `l + r`: both operands are evaluated, the
\* result of performBinaryOp is returned as text by visit(BinaryOp) and read
\* back by evaluate.
EvaluateAdd ==
    /\ UNCHANGED NotEval
    /\ statement = "pending"
    /\ LET left == evaluateIdentifier(scopes, "l", lastValue)
           afterLeft == LastAfter(lastValue, EnvGet(scopes, "l").value)
           right == evaluateIdentifier(scopes, "r", afterLeft)
           afterRight == LastAfter(afterLeft, EnvGet(scopes, "r").value)
           result == performBinaryOp(left, right)
       IN  lastValue' = textToValue(valueToString(result), afterRight)
    /\ statement' = "add"
    /\ lastVariable' = Read(scopes, "r")
    /\ UNCHANGED <<scopes, taken>>

\* visit(IfStatement) with the condition `l`.
IfThen ==
    /\ UNCHANGED NotEval
    /\ statement = "pending"
    /\ isTruthy(evaluateIdentifier(scopes, "l", lastValue))
    /\ statement' = "if"
    /\ taken' = "then"
    /\ lastValue' = LastAfter(lastValue, EnvGet(scopes, "l").value)
    /\ lastVariable' = Read(scopes, "l")
    /\ UNCHANGED scopes

IfElse ==
    /\ UNCHANGED NotEval
    /\ statement = "pending"
    /\ ~isTruthy(evaluateIdentifier(scopes, "l", lastValue))
    /\ statement' = "if"
    /\ taken' = "else"
    /\ lastValue' = LastAfter(lastValue, EnvGet(scopes, "l").value)
    /\ lastVariable' = Read(scopes, "l")
    /\ UNCHANGED scopes

\* The built-in pop on the elements of an array: what is left and the text
\* returned.
PopResult(elements) ==
    IF elements = <<>> THEN [left |-> <<>>, text |-> <<>>]
    ELSE [left |-> SubSeq(elements, 1, Len(elements) - 1),
          text |-> valueToString(elements[Len(elements)])]

\* `push(l, pop(l));`: push reads the variable, evaluates its second
\* argument (the pop, whose text is read back by evaluate), checks the value
\* against the element type of a variable declared `[...]` and appends it.
PushPop ==
    /\ UNCHANGED NotEval
    /\ statement = "pending"
    /\ LET arrayVar == EnvGet(scopes, "l")
       IN  IF arrayVar.value.tag # "array"
           THEN /\ statement' = "push error"
                /\ UNCHANGED <<scopes, lastValue>>
           ELSE LET popped == PopResult(arrayVar.value.v)
                    val == textToValue(popped.text, lastValue)
                    t == arrayVar.type
                    typed == Len(t) >= 2 /\ t[1] = "[" /\ t[Len(t)] = "]"
                    rejected == typed /\ ~valueMatchesType(val, SubSeq(t, 2, Len(t) - 1))
                    elements == IF rejected THEN popped.left ELSE Append(popped.left, val)
                IN  /\ statement' = IF rejected THEN "push error" ELSE "push"
                    /\ scopes' = [scopes EXCEPT ![1]["l"].value = ArrV(elements)]
                    /\ UNCHANGED lastValue
    /\ UNCHANGED <<taken, lastVariable>>

\* The marker under which visit(FunctionCall) hands a returned array, object
\* or function over in lastValue.
MarkerOf(value) ==
    IF value.tag = "array" THEN <<"[", "a", "r", "r", "a", "y", "]">>
    ELSE IF value.tag = "object" THEN <<"{", "o", "b", "j", "e", "c", "t", "}">>
    ELSE <<"[", "f", "u", "n", "c", "t", "i", "o", "n", "]">>

\* catch (const ReturnException &e) of the function-registry call path: the
\* text visit(FunctionCall) returns and lastValue after it.
RegistryReturn(value, last) ==
    IF value.tag \in {"array", "object", "function"}
    THEN [text |-> MarkerOf(value), last |-> value]
    ELSE [text |-> valueToString(value), last |-> last]

\* catch (const ReturnException &e) of the environment-binding call paths.
BindingReturn(value, last) == [text |-> valueToString(value), last |-> last]

\* evaluate of `f()` with `func f(): any { return l; }`: visit(ReturnStatement)
\* evaluates l and throws, the handler of the registry path answers with a
\* text and evaluate reads it back.
callByName(sc, last) ==
    LET value == evaluateIdentifier(sc, "l", last)
        ret == RegistryReturn(value, LastAfter(last, EnvGet(sc, "l").value))
    IN  textToValue(ret.text, ret.last)

\* evaluate of `g()` with `var g = f;`: g is no key of the function registry,
\* evaluate(callee) reads the binding (a function, handed over in lastValue),
\* then the body runs as above and the handler of the binding path answers.
callByBinding(sc, last) ==
    LET afterCallee == LastAfter(last, FuncV)
        value == evaluateIdentifier(sc, "l", afterCallee)
        ret == BindingReturn(value, LastAfter(afterCallee, EnvGet(sc, "l").value))
    IN  textToValue(ret.text, ret.last)

\* The scope stack after a call whose body ends in `return`: pushScope for
\* the parameters, pushScope of executeBlock, ReturnException leaves
\* executeBlock before its popScope, the handler pops one scope.
AfterReturn(sc) == PopScope(Append(Append(sc, EmptyScope), EmptyScope))

\* The ExpressionStatement `f();`.
CallByName ==
    /\ UNCHANGED NotEval
    /\ statement = "pending"
    /\ lastValue' = callByName(scopes, lastValue)
    /\ statement' = "call by name"
    /\ lastVariable' = Read(scopes, "l")
    /\ scopes' = AfterReturn(scopes)
    /\ UNCHANGED taken

\* The ExpressionStatement `g();`.
CallByBinding ==
    /\ UNCHANGED NotEval
    /\ statement = "pending"
    /\ lastValue' = callByBinding(scopes, lastValue)
    /\ statement' = "call by binding"
    /\ lastVariable' = Read(scopes, "l")
    /\ scopes' = AfterReturn(scopes)
    /\ UNCHANGED taken

NextEval ==
    \/ EvaluateAdd
    \/ IfThen
    \/ IfElse
    \/ PushPop
    \/ TypeofIdentifier
    \/ TypeofLiteral
    \/ CallByName
    \/ CallByBinding

----------------------------------------------------------------------------
(* Part XI: the lexer.  The source is a sequence of characters; position    *)
(* counts the characters consumed, as in the C++.  A token is its type.     *)

\* The longest source text.
MaxSource == 4

\* The characters of the source texts: a letter, a digit, a blank, a line
\* break, a quote, a slash and an ampersand.
Alphabet == {"a", "1", " ", "\n", "\"", "/", "&"}

RECURSIVE Sources(_)
Sources(n) ==
    IF n = 0 THEN {<<>>}
    ELSE LET shorter == Sources(n - 1)
         IN  shorter \cup {Append(s, c) : s \in {t \in shorter : Len(t) = n - 1}, c \in Alphabet}

NoToken == [type |-> "none", position |-> 0]

IdleLex ==
    /\ source = <<>>
    /\ position = 0
    /\ lexing = "idle"
    /\ lastToken = NoToken
    /\ tokens = <<>>

\* Lexer::Lexer(source)
InitLex ==
    /\ source \in Sources(MaxSource)
    /\ position = 0
    /\ lexing = "loop"
    /\ lastToken = NoToken
    /\ tokens = <<>>

\* Lexer::currentChar / peekChar at offset: "" stands for the NUL they return
\* at the end of the source.
CharAt(src, pos) == IF pos >= Len(src) THEN "" ELSE src[pos + 1]

isDigit(c) == c = "1"

isAlpha(c) == c = "a"

\* The loops of the lexer: advance from pos while the character is one of
\* `chars`.
RECURSIVE SkipWhile(_, _, _)
SkipWhile(src, pos, chars) ==
    IF pos < Len(src) /\ src[pos + 1] \in chars THEN SkipWhile(src, pos + 1, chars) ELSE pos

\* std::isspace holds of the blank and the line break.
skipWhitespace(src, pos) == SkipWhile(src, pos, {" ", "\n"})

\* skipComment: two advances, then to the end of the line.
skipComment(src, pos) == SkipWhile(src, pos + 2, Alphabet \ {"\n"})

Token(type, pos) == [type |-> type, position |-> pos]

readNumber(src, pos) == Token("INTEGER", SkipWhile(src, pos, {c \in Alphabet : isDigit(c)}))

isAlphaNumeric(c) == isAlpha(c) \/ isDigit(c)

readIdentifier(src, pos) ==
    Token("IDENTIFIER", SkipWhile(src, pos, {c \in Alphabet : isAlphaNumeric(c)}))

\* readString: the opening quote, the characters up to the next quote or the
\* end of the source, the closing quote if there is one.  The alphabet has
\* no backslash.
readString(src, pos) ==
    LET end == SkipWhile(src, pos + 1, Alphabet \ {"\""})
    IN  Token("STRING", IF CharAt(src, end) = "\"" THEN end + 1 ELSE end)

\* readOperator with the advance of a case removed.
readOperatorStuck(src, pos) ==
    IF CharAt(src, pos) = "/" THEN Token("SLASH", pos + 1)
    ELSE IF CharAt(src, pos) = "&"
    THEN IF CharAt(src, pos + 1) = "&" THEN Token("LOGICAL_AND", pos + 2)
         ELSE Token("UNKNOWN", pos)
    ELSE Token("UNKNOWN", pos + 1)

\* readOperator, for '/', '&' and the characters of the default case.
readOperator(src, pos) ==
    IF CharAt(src, pos) = "/" THEN Token("SLASH", pos + 1)
    ELSE IF CharAt(src, pos) = "&"
    THEN IF CharAt(src, pos + 1) = "&" THEN Token("LOGICAL_AND", pos + 2)
         ELSE Token("UNKNOWN", pos + 1)
    ELSE Token("UNKNOWN", pos + 1)

\* Lexer::nextToken from position pos: the token and the position after it.
RECURSIVE nextToken(_, _)
nextToken(src, pos) ==
    LET p == skipWhitespace(src, pos)
        c == CharAt(src, p)
    IN  IF p >= Len(src) THEN Token("EOF_TOKEN", p)
        ELSE IF c = "/" /\ CharAt(src, p + 1) = "/" THEN nextToken(src, skipComment(src, p))
        ELSE IF c = "\"" THEN readString(src, p)
        ELSE IF isDigit(c) THEN readNumber(src, p)
        ELSE IF isAlpha(c) THEN readIdentifier(src, p)
        ELSE readOperator(src, p)

\* One turn of the loop of tokenize.
TokenizeStep ==
    /\ UNCHANGED NotLex
    /\ lexing = "loop"
    /\ position < Len(source)
    /\ LET token == nextToken(source, position)
       IN  /\ lastToken' = token
           /\ position' = token.position
           /\ tokens' = IF token.type # "NEWLINE" THEN Append(tokens, token.type) ELSE tokens
           /\ lexing' = IF token.type = "EOF_TOKEN" THEN "returned" ELSE "loop"
    /\ UNCHANGED source

\* The loop condition fails: tokenize returns the tokens.
TokenizeReturn ==
    /\ UNCHANGED NotLex
    /\ lexing = "loop"
    /\ position >= Len(source)
    /\ lexing' = "returned"
    /\ UNCHANGED <<source, position, lastToken, tokens>>

NextLex ==
    \/ TokenizeStep
    \/ TokenizeReturn

----------------------------------------------------------------------------
(* Part XII: the parser's token cursor.  The parse functions reach the      *)
(* tokens through peek, previous, advance, check, match, consume and        *)
(* isAtEnd only; the order in which they call them is left open.            *)

\* The longest token sequence, its end-of-input token not counted.
MaxTokens == 3

\* Token types other than EOF_TOKEN.
TokenTypes == {"IDENTIFIER", "SEMICOLON"}

RECURSIVE TokenLists(_)
TokenLists(n) ==
    IF n = 0 THEN {<<>>}
    ELSE LET shorter == TokenLists(n - 1)
         IN  shorter \cup {Append(l, t) : l \in {m \in shorter : Len(m) = n - 1}, t \in TokenTypes}

\* What tokenize returns: tokens, with an EOF_TOKEN at the end when the
\* source ends in blanks or a comment.
LexerOutputs ==
    TokenLists(MaxTokens) \cup {Append(l, "EOF_TOKEN") : l \in TokenLists(MaxTokens)}

NoSavedPos == 0 - 1

IdleParse ==
    /\ current = 0
    /\ reads = {}
    /\ savedPos = NoSavedPos
    /\ parsing = "idle"

\* Parser::Parser(tokens)
InitParse ==
    /\ tokens \in LexerOutputs
    /\ current = 0
    /\ reads = {}
    /\ savedPos = NoSavedPos
    /\ parsing = "running"

\* The index peek reads at cursor cur, if any.
PeekReads(cur) == IF cur >= Len(tokens) THEN {} ELSE {cur}

\* peek().type at cursor cur.
PeekType(cur) == IF cur >= Len(tokens) THEN "EOF_TOKEN" ELSE tokens[cur + 1]

\* The index previous reads at cursor cur, if any.
PreviousReads(cur) == IF cur = 0 THEN {} ELSE {cur - 1}

isAtEnd(cur) == PeekType(cur) = "EOF_TOKEN"

\* check(type) at cursor cur.
CheckAt(cur, type) == ~isAtEnd(cur) /\ PeekType(cur) = type

\* The cursor after advance with its test removed.
AdvancedUnguarded(cur) == cur + 1

\* The cursor after advance.
Advanced(cur) == IF ~isAtEnd(cur) THEN cur + 1 ELSE cur

Peek ==
    /\ UNCHANGED NotParse
    /\ parsing = "running"
    /\ reads' = PeekReads(current)
    /\ UNCHANGED <<tokens, current, savedPos, parsing>>

Previous ==
    /\ UNCHANGED NotParse
    /\ parsing = "running"
    /\ reads' = PreviousReads(current)
    /\ UNCHANGED <<tokens, current, savedPos, parsing>>

\* advance: isAtEnd, the step, previous.
Advance ==
    /\ UNCHANGED NotParse
    /\ parsing = "running"
    /\ current' = Advanced(current)
    /\ reads' = PeekReads(current) \cup PreviousReads(current')
    /\ UNCHANGED <<tokens, savedPos, parsing>>

\* match({type}): check, and advance when it holds.
Match(type) ==
    /\ UNCHANGED NotParse
    /\ parsing = "running"
    /\ current' = IF CheckAt(current, type) THEN Advanced(current) ELSE current
    /\ reads' = PeekReads(current)
                   \cup (IF CheckAt(current, type) THEN PreviousReads(current') ELSE {})
    /\ UNCHANGED <<tokens, savedPos, parsing>>

\* consume(type) when check holds.
Consume(type) ==
    /\ UNCHANGED NotParse
    /\ parsing = "running"
    /\ CheckAt(current, type)
    /\ current' = Advanced(current)
    /\ reads' = PeekReads(current) \cup PreviousReads(current')
    /\ UNCHANGED <<tokens, savedPos, parsing>>

\* consume(type) when check fails: peek for the line, the column and the
\* token of the ParseError, which a speculative parse catches to return to
\* the saved position and which ends the parse otherwise.
ConsumeFails(type) ==
    /\ UNCHANGED NotParse
    /\ parsing = "running"
    /\ ~CheckAt(current, type)
    /\ reads' = PeekReads(current)
    /\ IF savedPos # NoSavedPos
       THEN /\ current' = savedPos
            /\ savedPos' = NoSavedPos
            /\ UNCHANGED parsing
       ELSE /\ parsing' = "ParseError"
            /\ UNCHANGED <<current, savedPos>>
    /\ UNCHANGED tokens

\* size_t savedPos = current; before parseFunctionType is tried.
SavePosition ==
    /\ UNCHANGED NotParse
    /\ parsing = "running"
    /\ savedPos = NoSavedPos
    /\ savedPos' = current
    /\ reads' = {}
    /\ UNCHANGED <<tokens, current, parsing>>

\* The loop of parse ends: isAtEnd holds.
ParseReturn ==
    /\ UNCHANGED NotParse
    /\ parsing = "running"
    /\ isAtEnd(current)
    /\ parsing' = "done"
    /\ reads' = PeekReads(current)
    /\ UNCHANGED <<tokens, current, savedPos>>

NextParse ==
    \/ Peek
    \/ Previous
    \/ Advance
    \/ \E type \in TokenTypes : Match(type)
    \/ \E type \in TokenTypes : Consume(type)
    \/ \E type \in TokenTypes : ConsumeFails(type)
    \/ SavePosition
    \/ ParseReturn

----------------------------------------------------------------------------
(* Specifications *)

Init ==
    /\ InitExec /\ IdleEnv /\ IdleSet /\ IdleMod /\ IdleAwait /\ IdleSwitch
    /\ IdleLoop /\ IdleCall /\ IdleDecl
    /\ IdleEval
    /\ IdleLex /\ IdleParse

Next == NextExec

\* The evaluator's control flow (Part I).
Spec == Init /\ [][Next]_vars

\* Stores into bindings of every declared type (Parts II and III).
InitStores ==
    /\ InitSet /\ IdleExec /\ IdleMod /\ IdleAwait /\ IdleSwitch /\ IdleLoop
    /\ IdleCall /\ IdleDecl
    /\ IdleEval
    /\ IdleLex /\ IdleParse

SpecSet == InitStores /\ [][NextSet]_vars

\* The module loader running the declarations of a main program and of the
\* modules it loads (Part IV).
InitLoader ==
    /\ InitMod /\ IdleExec /\ IdleSet /\ IdleAwait /\ IdleSwitch /\ IdleLoop
    /\ IdleCall /\ IdleDecl
    /\ IdleEval
    /\ IdleLex /\ IdleParse

SpecImport == InitLoader /\ [][NextMod]_vars

InitAwaiting ==
    /\ InitAwait /\ IdleExec /\ IdleSet /\ IdleMod /\ IdleSwitch /\ IdleLoop
    /\ IdleCall /\ IdleDecl
    /\ IdleEval
    /\ IdleLex /\ IdleParse

\* A main program that assigns and awaits programs, and the worker tasks (Part V).
SpecAwait == InitAwaiting /\ [][NextAwait]_vars

InitSwitching ==
    /\ InitSwitch /\ IdleExec /\ IdleEnv /\ IdleSet /\ IdleMod /\ IdleAwait
    /\ IdleLoop /\ IdleCall /\ IdleDecl
    /\ IdleEval
    /\ IdleLex /\ IdleParse

\* One switch statement, for every discriminant and list of clauses (Part VI).
SpecSwitch == InitSwitching /\ [][NextSwitch]_vars

InitLooping ==
    /\ InitLoop /\ IdleExec /\ IdleEnv /\ IdleSet /\ IdleMod /\ IdleAwait
    /\ IdleSwitch /\ IdleCall /\ IdleDecl
    /\ IdleEval
    /\ IdleLex /\ IdleParse

\* One while or for loop, attempted with the JIT compiler and interpreted, from
\* the same environment (Part VII).
SpecLoop == InitLooping /\ [][NextLoop]_vars

InitCalling ==
    /\ InitCall /\ IdleExec /\ IdleSet /\ IdleMod /\ IdleAwait
    /\ IdleSwitch /\ IdleLoop /\ IdleDecl
    /\ IdleEval
    /\ IdleLex /\ IdleParse

\* Declarations of programs, functions and function variables, and calls by
\* name (Part VIII).
SpecCall == InitCalling /\ [][NextCall]_vars

InitDeclaring ==
    /\ InitDecl /\ IdleExec /\ IdleSet /\ IdleMod /\ IdleAwait
    /\ IdleSwitch /\ IdleLoop /\ IdleCall
    /\ IdleEval
    /\ IdleLex /\ IdleParse

\* One `var x: T = value;`, for every value and type spec (Part IX).
SpecDeclare == InitDeclaring /\ [][NextDecl]_vars

InitEvaluating ==
    /\ InitEval /\ IdleExec /\ IdleSet /\ IdleMod /\ IdleAwait
    /\ IdleSwitch /\ IdleLoop /\ IdleCall /\ IdleDecl
    /\ IdleLex /\ IdleParse

\* One statement over two variables of every value: `l + r`, `if (l)`,
\* `push(l, pop(l))` (Part X).
SpecEval == InitEvaluating /\ [][NextEval]_vars

InitLexing ==
    /\ InitLex /\ IdleExec /\ IdleEnv /\ IdleSet /\ IdleMod /\ IdleAwait
    /\ IdleSwitch /\ IdleLoop /\ IdleCall /\ IdleDecl /\ IdleEval /\ IdleParse

\* Lexer::tokenize on every source text (Part XI).
SpecLex == InitLexing /\ [][NextLex]_vars

\* tokenize is a sequential loop: an iteration that can run does run.
SpecLexFair == SpecLex /\ WF_vars(NextLex)

InitParsing ==
    /\ InitParse /\ IdleExec /\ IdleEnv /\ IdleSet /\ IdleMod /\ IdleAwait
    /\ IdleSwitch /\ IdleLoop /\ IdleCall /\ IdleDecl /\ IdleEval
    /\ source = <<>> /\ position = 0 /\ lexing = "returned" /\ lastToken = NoToken

\* The parser's token cursor on every token sequence the lexer returns, under
\* every order of the cursor operations the parse functions can make (Part XII).
SpecParse == InitParsing /\ [][NextParse]_vars

----------------------------------------------------------------------------
(* Properties of Part I *)

\* One activation record leaves the stack in this step.
Leaves == Len(frames') = Len(frames) - 1

\* A runtime_error is propagating, or is held by a handler that will rethrow it
\* once its finally block is done.
ErrorInFlight ==
    \/ signal = "Error"
    \/ \E i \in 1..Len(frames) : frames[i].pending = "Error"

\* C1: when the program finishes, the scope stack is as deep as when it started.
C1_DepthRestoredAtEnd == status = "done" => depth = InitDepth

\* C2: a try statement with a finally block runs that block exactly once per
\* execution: no try in progress has run it twice, and when the statement is left
\* (normally, or by a Throw, Return, Break or Continue) it has run it once.
C2_FinallyExactlyOnce ==
    [][/\ \A i \in 1..Len(frames') : frames'[i].runs <= 1
       /\ (Leaves /\ Top.kind = "try" /\ Top.hasFinally) => Top.runs = 1]_vars

\* C2 witness: the finally block of a try whose body exited by return has run once
\* and the return is about to be rethrown.
C2_Witness ==
    /\ Running /\ signal = "none"
    /\ Top.kind = "try" /\ Top.phase = "finallySignal"
    /\ Top.pending = "Return" /\ Top.runs = 1

\* C8: a runtime error raised while a try body executes ends the process: from
\* then on the error is in flight or the process has exited.
C8_RuntimeErrorInTryIsFatal == errInTry => (status = "exited" \/ ErrorInFlight)

\* C9: a block, a call or a for loop leaves the scope stack, on every exit path,
\* as deep as it was on entry.
C9_ScopeReleasedOnExit ==
    [][(Leaves /\ Top.kind \in {"block", "call", "for"}) => depth' = Top.entry]_vars

\* C25: a Break or Continue signal never crosses a call boundary: when such
\* a signal reaches the activation record of a call made while a loop or
\* switch of the caller is running, it does not leave the call as Break or
\* Continue towards that loop or switch.
C25_BreakStaysInCall ==
    [][(/\ Running
        /\ signal \in {"Break", "Continue"}
        /\ Top.kind = "call"
        /\ \E i \in 1..(Len(frames) - 1) : frames[i].kind \in {"for", "while", "switch"}
        /\ frames' = Pop)
          => signal' \notin {"Break", "Continue"}]_vars

\* C26: a thrown value in flight while a try statement is executing its try
\* block is taken out of flight only by a try statement (its catch clause, or
\* its finally block before the rethrow); no other activation record, the
\* awaited program's included, makes it disappear.
C26_ThrowReachesTry ==
    [][(/\ Running
        /\ signal = "Throw"
        /\ InTryBody
        /\ signal' # "Throw")
          => Top.kind = "try"]_vars

----------------------------------------------------------------------------
(* Properties of Parts II and III *)

\* The specs the claim calls complex: one that contains '|', '[' or '{', or is any.
ClaimedComplex(t) ==
    HasChar(t, "|") \/ HasChar(t, "[") \/ HasChar(t, "{") \/ t = <<"a", "n", "y">>

----------------------------------------------------------------------------
(* Properties of Part IV *)

\* C4: any number of import requests for one module, re-entrant ones included,
\* start the module's top-level code at most once.
C4_ExecutedAtMostOnce == \A p \in DOMAIN executed : executed[p] <= 1

\* A module whose load is still in progress has been imported again twice from
\* inside that load, and its code has run once.
C4_Witness ==
    /\ loads # <<>>
    /\ laterImport # NoImport
    /\ laterImport.path = loads[1].path
    /\ executed[laterImport.path] = 1

\* C5: a later import of a module binds the same names to the same exported
\* values as an earlier import of that module with the same import list.
C5_SameBindings == laterImport # NoImport => laterImport.bound = firstImport.bound

\* The load that a step completes: the innermost one, when the step ends it.
EndsLoad(kind) ==
    /\ loads # <<>>
    /\ Len(loads') = Len(loads) - 1
    /\ loads[Len(loads)].kind = kind

\* C11: when `import "path"` with no default name and no list completes after
\* loading the module, the importer's environment binds no name that it did
\* not bind before the import.
C11_SideEffectImportBindsNothing ==
    [][(/\ EndsLoad("import")
        /\ loads[Len(loads)].names = <<>>
        /\ loads[Len(loads)].dflt = "")
          => EnvNames(scopes') \subseteq loads[Len(loads)].namesBefore]_vars

C29_ListedNamesBound ==
    firstImport # NoImport =>
        \A i \in 1..Len(firstImport.names) :
            firstImport.bound[firstImport.names[i]].tag # "unbound"

----------------------------------------------------------------------------
(* Properties of Part V *)

\* What a thread can read through an environment: every binding in every
\* scope with its value, an array by its elements.
Visible(sc, h) ==
    [i \in 1..Len(sc) |->
        [n \in DOMAIN sc[i] |->
            IF IsRef(sc[i][n].value) THEN h[sc[i][n].value.v] ELSE sc[i][n].value]]

\* C6: the awaited program runs against a copy (the caller's environment as
\* it was at dispatch is set aside meanwhile), and after the join the caller's
\* environment shows what it showed at dispatch: no mutation made by the
\* worker is visible through it.
C6_WorkerMutationsInvisible ==
    /\ worker = "body" => savedEnv = snapshot.scopes
    /\ caller = "joined" => Visible(scopes, heap) = Visible(snapshot.scopes, snapshot.heap)

\* C7: while the awaited program's task has not finished, the caller is
\* blocked in the await; it neither completes the await nor executes anything.
C7_JoinOnAwait == worker \in {"start", "body"} => caller = "waiting"

\* The caller has come out of an await whose task ran and wrote to the array.
C7_Witness ==
    /\ caller = "joined"
    /\ worker = "done"
    /\ heap # snapshot.heap

----------------------------------------------------------------------------
(* Properties of Part VI *)

\* The case clause at position k has the discriminant's string form.
StringFormsEqual(k) ==
    /\ ~node.cases[k].isDefault
    /\ valueToString(evaluate(node.cases[k].value)) = valueToString(evaluate(node.discriminant))

\* The clauses the loop has dealt with so far.
Reached == IF clause = 0 THEN {} ELSE 1..(IF swExit \in {"break", "signal"} THEN clause ELSE clause - 1)

\* C10: once the loop reaches the first case whose string form equals the
\* discriminant's, that case and every clause reached after it execute; the
\* loop goes on to the next clause unless the statements executed ended in a
\* break (or another signal) and stops at the end of the list; and a default
\* executes only if no case before it had an equal string form or the clause
\* before it executed and fell through.
C10_SwitchFallthrough ==
    /\ \A k \in Reached :
         (StringFormsEqual(k) /\ \A h \in 1..(k - 1) : ~StringFormsEqual(h))
             => \A j \in Reached : j >= k => j \in ran
    /\ \A j \in ran :
         /\ j \in Reached
         /\ node.cases[j].ends # "normal" => (swExit = node.cases[j].ends /\ clause = j)
         /\ node.cases[j].isDefault =>
              \/ \A h \in 1..(j - 1) : ~StringFormsEqual(h)
              \/ (j - 1) \in ran /\ node.cases[j - 1].ends = "normal"
    /\ swExit = "end" => Reached = 1..Len(node.cases)
    /\ swExit \in {"break", "signal"} => clause \in ran

\* switch (1) { case "1": ...  case 2: ...  default: ... } has come to its end:
\* the first clause matched by string form, the second and the default ran by
\* fall-through.
C10_Witness ==
    /\ swExit = "end"
    /\ Len(node.cases) = 3
    /\ node.discriminant = IntLit(1)
    /\ node.cases[1].value = StrLit(<<"1">>)
    /\ StringFormsEqual(1) /\ ~StringFormsEqual(2)
    /\ ~node.cases[2].isDefault
    /\ node.cases[3].isDefault
    /\ ran = {1, 2, 3}

----------------------------------------------------------------------------
(* Properties of Part VII *)

\* C13: whenever the JIT compiler handled the loop, the environment it left
\* equals the environment the interpreted execution of the same loop leaves
\* when started from the same environment.
C13_JitAgreesWithInterpreter ==
    (jit = "handled" /\ ipc.at = "done") => envJit = envInterp

----------------------------------------------------------------------------
(* Properties of Part VIII *)

\* The order in which the parts of visit(FunctionCall) are consulted.
ResolutionOrder == <<"builtin", "program", "function", "environment">>

\* Whether the registry or table `h` contains `name`.
Contains(h, name) ==
    IF h = "builtin" THEN name \in Builtins
    ELSE IF h = "program" THEN name \in DOMAIN programs
    ELSE IF h = "function" THEN name \in DOMAIN functions
    ELSE EnvHas(scopes, name)

\* C14: a call by name is handled by the first of built-in names, program
\* registry, function registry and environment that contains the name: every
\* step that starts a call leaves it with that handler, and a call taken by
\* a registry runs with the parameters of that registry's declaration.
C14_ResolutionOrder ==
    [][call'.count # call.count =>
          \A k \in 1..Len(ResolutionOrder) :
              (/\ Contains(ResolutionOrder[k], call'.name)
               /\ \A j \in 1..(k - 1) : ~Contains(ResolutionOrder[j], call'.name))
                  => /\ call'.handler = ResolutionOrder[k]
                     /\ (call'.at = "args" /\ k = 2) => call'.params = programs[call'.name]
                     /\ (call'.at = "args" /\ k = 3) => call'.params = functions[call'.name]]_vars

\* A call of f is running as a program while f is also a function of other
\* parameters and a binding of the environment.
C14_Witness ==
    /\ call.at = "args"
    /\ call.handler = "program"
    /\ call.name \in DOMAIN functions
    /\ functions[call.name] # programs[call.name]
    /\ EnvHas(scopes, call.name)

\* C15: the arguments of a call are all evaluated, left to right, before the
\* callee's scope is pushed and before any parameter is defined: in the
\* record of a call, nothing but evaluations precedes an evaluation, and the
\* evaluations are in the order of the arguments.
C15_ArgumentsBeforeDispatch ==
    \A j \in 1..Len(events) :
        events[j].op = "evaluate" =>
            \A i \in 1..(j - 1) : events[i].op = "evaluate" /\ events[i].arg < events[j].arg

\* C24: after a user call returns, by `return` or at the end of the body, no
\* parameter or local of the callee is visible in the caller: the scope
\* stack is the one the call started from (the bodies assign nothing).
C24_CalleeScopeReleased ==
    [][(call.at = "args" /\ call'.at = "idle") => scopes' = call.before]_vars

----------------------------------------------------------------------------
(* Properties of Part IX *)

\* How many brackets and braces are open before position i of s.
RECURSIVE Nesting(_, _)
Nesting(s, i) ==
    IF i <= 1 THEN 0
    ELSE Nesting(s, i - 1)
           + (IF s[i - 1] \in {"[", "{"} THEN 1 ELSE IF s[i - 1] \in {"]", "}"} THEN 0 - 1 ELSE 0)

\* The positions of s that hold c outside all brackets and braces.
TopLevel(s, c) == {i \in 1..Len(s) : s[i] = c /\ Nesting(s, i) = 0}

\* s split at exactly the top-level occurrences of c, each part trimmed.
RECURSIVE SplitTopLevel(_, _)
SplitTopLevel(s, c) ==
    IF TopLevel(s, c) = {} THEN <<trim(s)>>
    ELSE LET i == CHOOSE i \in TopLevel(s, c) : \A j \in TopLevel(s, c) : i <= j
         IN  <<trim(SubSeq(s, 1, i - 1))>> \o SplitTopLevel(SubSeq(s, i + 1, Len(s)), c)

Matched == declOutcome = "defined"

\* C16: a type spec with a top-level bar is split at exactly the top-level
\* bars, and the value matches it if and only if it matches one of the
\* branches.
C16_UnionSplitAtTopLevel ==
    LET t == trim(declaration.type)
        branches == SplitTopLevel(t, "|")
    IN  (declOutcome \in {"defined", "type error"} /\ TopLevel(t, "|") # {})
            => (Matched <=> \E i \in 1..Len(branches) :
                                valueMatchesType(declaration.value, branches[i]))

\* Whether t is one array spec `[inner]`: the bracket it opens with is the
\* one it closes with.
IsArraySpec(t) ==
    /\ Len(t) >= 2
    /\ t[1] = "["
    /\ t[Len(t)] = "]"
    /\ \A i \in 2..Len(t) : Nesting(t, i) > 0

\* C17: for a spec `[inner]` the value must be an array; with a top-level
\* comma in inner the array has as many elements as inner has slots and each
\* element matches its slot; otherwise every element matches inner.
C17_ArraySpec ==
    LET t == trim(declaration.type)
        inner == SubSeq(t, 2, Len(t) - 1)
        slots == SplitTopLevel(inner, ",")
        value == declaration.value
    IN  (declOutcome \in {"defined", "type error"} /\ IsArraySpec(t))
            => (Matched <=>
                   /\ value.tag = "array"
                   /\ IF TopLevel(inner, ",") # {}
                        THEN /\ Len(value.v) = Len(slots)
                             /\ \A i \in 1..Len(slots) : valueMatchesType(value.v[i], slots[i])
                        ELSE \A i \in 1..Len(value.v) : valueMatchesType(value.v[i], inner))

----------------------------------------------------------------------------
(* Properties of Part X *)

\* The values the variables l and r were declared with; `l + r` and
\* `if (l)` leave them alone.
OperandL == EnvGet(scopes, "l").value

OperandR == EnvGet(scopes, "r").value

\* C18: for every array, pop followed by push of the popped string form
\* leaves the array with the string form it had: `push(l, pop(l));` on an
\* array l does not change the string form of l.
C18_PopPushRestores ==
    [][(statement = "pending" /\ statement' \in {"push", "push error"}
          /\ OperandL.tag = "array")
         => valueToString(EnvGet(scopes', "l").value) = valueToString(OperandL)]_vars

\* C19: for operands that are not both Int and not both Float, `l + r`
\* evaluates to the string made of the string form of l followed by the
\* string form of r.
C19_AddConcatenates ==
    (/\ statement = "add"
     /\ ~(OperandL.tag = "int" /\ OperandR.tag = "int")
     /\ ~(OperandL.tag = "float" /\ OperandR.tag = "float"))
        => lastValue = StrV(valueToString(OperandL) \o valueToString(OperandR))

\* Truthiness as stated per variant: a Bool is itself, a number is truthy
\* iff non-zero, a string, array or object iff non-empty, a function always.
StatedTruthy(v) ==
    IF v.tag = "bool" THEN v.v
    ELSE IF v.tag \in {"int", "float"} THEN v.v # 0
    ELSE IF v.tag \in {"string", "array"} THEN Len(v.v) > 0
    ELSE IF v.tag = "object" THEN DOMAIN v.v # {}
    ELSE v.tag = "function"

\* C20: `if (l)` takes the then branch exactly when l is truthy as stated.
C20_Truthiness ==
    statement = "if" => (taken = "then" <=> StatedTruthy(OperandL))

\* C21: `typeof e` is the declared type of the identifier e reads, and the
\* runtime tag name of e's value when e reads no identifier: `typeof l` is
\* the type l was declared with, and `typeof 1` is "int".
C21_Typeof ==
    /\ statement = "typeof identifier" => lastValue = StrV(EnvGet(scopes, "l").type)
    /\ statement = "typeof literal" => lastValue = StrV(<<"i", "n", "t">>)

\* C27: a string returned from a user function is received by the caller as
\* the same string: after `f()` with `func f(): any { return l; }` and l a
\* string, the value of the call is l's value.
C27_ReturnedStringStays ==
    (statement = "call by name" /\ OperandL.tag = "string") => lastValue = OperandL

\* C28: a call through a binding that holds the function yields the value
\* the call by the declared name yields in the same state.
C28_BindingCallAsNamedCall ==
    [][statement' = "call by binding" => lastValue' = callByName(scopes, lastValue)]_vars

----------------------------------------------------------------------------
(* Properties of Part XI *)

\* C23: the token sequence tokenize returns is terminated by an end-of-input
\* token: its last token, and only its last token, is EOF_TOKEN.
C23_EndsWithEOF ==
    lexing = "returned" =>
        /\ tokens # <<>>
        /\ \A i \in 1..Len(tokens) : tokens[i] = "EOF_TOKEN" <=> i = Len(tokens)

\* C30: the lexer terminates: every nextToken made by tokenize moves the read
\* position forward or returns the end-of-input token, and tokenize returns.
C30_LexerTerminates ==
    /\ [][lastToken' # lastToken =>
             \/ position' > position
             \/ lastToken'.type = "EOF_TOKEN"]_vars
    /\ <>(lexing = "returned")

\* A source of four characters was tokenized in four turns of the loop, the
\* last of them through readOperator on a single '&'.
C30_Witness ==
    /\ lexing = "returned"
    /\ Len(source) = 4
    /\ position = 4
    /\ Len(tokens) = 4
    /\ tokens[4] = "UNKNOWN"

----------------------------------------------------------------------------
(* Properties of Part XII *)

\* C22: the parser never reads a token at a position past the end of the
\* token sequence, whether the parse succeeds or raises a ParseError.
C22_NoReadPastEnd == \A i \in reads : 0 <= i /\ i < Len(tokens)

\* The parse reached the end of a sequence that has no end-of-input token,
\* advanced there, and ended; and a parse that raised a ParseError at the end.
C22_Witness ==
    /\ parsing \in {"done", "ParseError"}
    /\ Len(tokens) = MaxTokens
    /\ current = Len(tokens)
    /\ reads = {}

====
